---- MODULE Spec2Model ----
(***************************************************************************)
(* Traffic capture pipeline of mcp-mitm-mem0: the mitmproxy addon          *)
(* (src/memory_addon.py), the memory service it persists through           *)
(* (src/mcp_mitm_mem0/memory_service.py), the MCP tools                    *)
(* (src/mcp_mitm_mem0/mcp_server.py, reflection_agent.py), and the         *)
(* automatic reflection hook (src/hooks/auto_reflection_hook.py).          *)
(*                                                                         *)
(* Eleven specifications share this module:                                *)
(*   SpecSSE      parse_sse_response applied to bounded event streams      *)
(*   SpecService  MemoryService operations against a scripted remote       *)
(*   Spec         the addon's request/response hooks over concurrent flows *)
(*   SpecPair     two concurrent flows with different user texts           *)
(*   SpecTurn     the hooks on one flow over a wide domain of payloads     *)
(*   SpecStream   the response hook re-invoked while a stream arrives      *)
(*   SpecReflect  long runs of turns and the background reflection units   *)
(*   SpecDispatch the same turns when asyncio.create_task may raise        *)
(*   SpecTools    the MCP tools and ReflectionAgent.suggest_next_steps     *)
(*   SpecAgent    ReflectionAgent's analysis and its reflection fallback   *)
(*   SpecHook     the reflection hook's session counters over hook events  *)
(* Text is a sequence of one-character strings, so that concatenation,     *)
(* joining and prefixes are computed rather than assumed.                  *)
(***************************************************************************)
EXTENDS Integers, Sequences, FiniteSets, TLC

VARIABLES
    sse_content,        \* SpecSSE: the lines of the raw SSE body handed to the parser
    sse_result,         \* SpecSSE: what parse_sse_response returned, once it has
    svc_op,             \* SpecService: the MemoryService method being invoked
    svc_script,         \* SpecService: outcomes the remote client will give, in order
    svc_pc,             \* SpecService: "idle" | "calling" | "returned" | "raised"
    svc_calls,          \* SpecService: number of invocations of the remote client so far
    svc_error,          \* SpecService: the exception that reached the caller ("none" if none)
    flow_pc,            \* per flow: "new" | "requested" | "responded" (host hook ordering)
    flow_target,        \* per flow: where flow.request points (host and path)
    request_body,       \* per flow: flow.request.content
    response_body,      \* per flow: flow.response (content-type and content)
    claude_request,     \* flow.metadata["claude_request"] per flow (NoRequest if absent)
    processed_conv_id,  \* flow.metadata["processed_conv_id"] per flow (NoConv if absent)
    message_count,      \* MemoryAddon.message_count
    recent_messages,    \* MemoryAddon.recent_messages (deque, maxlen RECENT_MESSAGES_LIMIT)
    pending,            \* response hooks suspended at `await memory_service.add_memory`
    store,              \* turns the remote store accepted, in order of acceptance
    reflections,        \* window snapshots handed to asyncio.create_task, in order
    tasks,              \* tasks[i]: the background unit created with reflections[i]
    add_calls,          \* number of add_memory invocations made by the response hook
    last,               \* the hook step just taken: its inputs and how it ended
    tool_pc,            \* SpecTools: "idle" | "called" | "returned" | "raised"
    tool_name,          \* SpecTools: the MCP tool invoked
    tool_env,           \* SpecTools: what the calls the tool wraps will answer
    tool_out,           \* SpecTools: what the tool returned or raised
    session_data,       \* SpecHook: the session file of the reflection hook
    hook_event          \* SpecHook: the hook event just handled and what it led to

sseVars == <<sse_content, sse_result>>
svcVars == <<svc_op, svc_script, svc_pc, svc_calls, svc_error>>
flowVars == <<flow_pc, flow_target, request_body, response_body, claude_request,
              processed_conv_id>>
addonVars == <<message_count, recent_messages, pending, store, reflections,
               tasks, add_calls, last>>
toolVars == <<tool_pc, tool_name, tool_env, tool_out>>
hookVars == <<session_data, hook_event>>
vars == <<sseVars, svcVars, flowVars, addonVars, toolVars, hookVars>>

(***************************************************************************)
(* Bounds of the model                                                     *)
(***************************************************************************)
MaxLines == 4        \* SpecSSE: longest event stream explored
MaxScript == 3       \* SpecService: longest scripted sequence of remote outcomes
MaxAdds == 3         \* Spec, SpecTurn: add_memory invocations explored per behaviour
MaxEvents == 5       \* SpecTurn: longest event stream after the optional message_start
MaxTurns == 6        \* SpecReflect: add_memory invocations explored per behaviour
MaxMemories == 2     \* SpecTools: longest list of memories a search answers with
MaxCount == 21       \* SpecHook: largest message or tool count explored

(***************************************************************************)
(* Program constants                                                       *)
(***************************************************************************)
RECENT_MESSAGES_LIMIT == 5
REFLECTION_MESSAGE_THRESHOLD == 5

(***************************************************************************)
(* Text helpers                                                            *)
(***************************************************************************)
EmptyText == <<>>
Space == <<" ">>

\* str.join: the parts separated by `sep`
RECURSIVE Join(_, _)
Join(parts, sep) ==
    IF parts = <<>> THEN EmptyText
    ELSE IF Len(parts) = 1 THEN parts[1]
    ELSE parts[1] \o sep \o Join(Tail(parts), sep)

\* all sequences over S of length at most n
RECURSIVE SeqsUpTo(_, _)
SeqsUpTo(S, n) ==
    IF n = 0 THEN {<<>>}
    ELSE LET shorter == SeqsUpTo(S, n - 1)
         IN  shorter \cup {Append(s, x) : s \in {t \in shorter : Len(t) = n - 1}, x \in S}

(***************************************************************************)
(* Server-sent event lines.  Every line of the body is one of:             *)
(*   nodata     a line that does not start with "data: "                   *)
(*   badjson    "data: " followed by text json.loads rejects               *)
(*   nonobject  "data: " followed by JSON that is not an object            *)
(*   message_start / content_block_start / content_block_delta /           *)
(*   content_block_stop / ping (any other or missing "type")               *)
(***************************************************************************)
Line(kind, btype, dtype, text, model, id) ==
    [kind |-> kind, btype |-> btype, dtype |-> dtype, text |-> text,
     model |-> model, id |-> id]

MsgStart(model, id) == Line("message_start", "", "", EmptyText, model, id)
BlockStart(btype) == Line("content_block_start", btype, "", EmptyText, "", "")
Delta(dtype, text) == Line("content_block_delta", "", dtype, text, "", "")
BlockStop == Line("content_block_stop", "", "", EmptyText, "", "")
Ping == Line("ping", "", "", EmptyText, "", "")
NoData == Line("nodata", "", "", EmptyText, "", "")
BadJson == Line("badjson", "", "", EmptyText, "", "")
NonObject == Line("nonobject", "", "", EmptyText, "", "")

(***************************************************************************)
(* Response payloads as the hook sees them after parsing (a Python dict).  *)
(* `empty` is the dict {} ; has* say whether the key is present.           *)
(***************************************************************************)
TextBlock(text) == [type |-> "text", hasText |-> TRUE, text |-> text]
ToolUseBlock == [type |-> "tool_use", hasText |-> FALSE, text |-> EmptyText]

EmptyDict ==
    [empty |-> TRUE, hasContent |-> FALSE, content |-> <<>>,
     hasModel |-> FALSE, model |-> "", hasId |-> FALSE, id |-> ""]

\* response_data as initialised at src/memory_addon.py:63
InitialResponseData ==
    [empty |-> FALSE, hasContent |-> TRUE, content |-> <<>>,
     hasModel |-> TRUE, model |-> "", hasId |-> FALSE, id |-> ""]

\* the parser's loop state: response_data, current_content_block, current_text,
\* and whether an exception left the loop (caught at line 112)
InitialParseState ==
    [data |-> InitialResponseData, block |-> "None", text |-> EmptyText,
     aborted |-> FALSE]

\* mutant of ParseLine: content_block_start forgets to reset current_text
ParseLineSkipsReset(st, line) ==
    IF st.aborted THEN st
    ELSE CASE line.kind = "nonobject" -> [st EXCEPT !.aborted = TRUE]
           [] line.kind = "message_start" ->
                [st EXCEPT !.data.model = line.model,
                           !.data.hasId = TRUE, !.data.id = line.id]
           [] line.kind = "content_block_start" -> [st EXCEPT !.block = line.btype]
           [] line.kind = "content_block_delta" ->
                IF line.dtype = "text_delta"
                THEN [st EXCEPT !.text = st.text \o line.text]
                ELSE st
           [] line.kind = "content_block_stop" ->
                [st EXCEPT
                    !.data.content =
                        IF st.block = "text"
                        THEN Append(st.data.content, TextBlock(st.text))
                        ELSE st.data.content,
                    !.block = "None",
                    !.text = EmptyText]
           [] OTHER -> st

\* mutant of ParseLine: content_block_stop saves the accumulated text whatever
\* block is open, or none
ParseLineSavesAnyBlock(st, line) ==
    IF st.aborted THEN st
    ELSE CASE line.kind = "nonobject" -> [st EXCEPT !.aborted = TRUE]
           [] line.kind = "message_start" ->
                [st EXCEPT !.data.model = line.model,
                           !.data.hasId = TRUE, !.data.id = line.id]
           [] line.kind = "content_block_start" ->
                [st EXCEPT !.block = line.btype,
                           !.text = IF line.btype = "text" THEN EmptyText ELSE st.text]
           [] line.kind = "content_block_delta" ->
                IF line.dtype = "text_delta"
                THEN [st EXCEPT !.text = st.text \o line.text]
                ELSE st
           [] line.kind = "content_block_stop" ->
                [st EXCEPT
                    !.data.content = Append(st.data.content, TextBlock(st.text)),
                    !.block = "None",
                    !.text = EmptyText]
           [] OTHER -> st

\* one iteration of `for line in lines` (src/memory_addon.py:68-108)
ParseLine(st, line) ==
    IF st.aborted THEN st
    ELSE CASE line.kind = "nonobject" ->
                \* event_data.get raises AttributeError: not caught at line 106
                [st EXCEPT !.aborted = TRUE]
           [] line.kind = "message_start" ->
                [st EXCEPT !.data.model = line.model,
                           !.data.hasId = TRUE, !.data.id = line.id]
           [] line.kind = "content_block_start" ->
                [st EXCEPT !.block = line.btype,
                           !.text = IF line.btype = "text" THEN EmptyText ELSE st.text]
           [] line.kind = "content_block_delta" ->
                IF line.dtype = "text_delta"
                THEN [st EXCEPT !.text = st.text \o line.text]
                ELSE st
           [] line.kind = "content_block_stop" ->
                [st EXCEPT
                    !.data.content =
                        IF st.block = "text"
                        THEN Append(st.data.content, TextBlock(st.text))
                        ELSE st.data.content,
                    !.block = "None",
                    !.text = EmptyText]
           [] OTHER -> st   \* nodata, badjson, ping: skipped

RECURSIVE ParseLines(_, _)
ParseLines(st, lines) ==
    IF lines = <<>> THEN st
    ELSE ParseLines(ParseLine(st, Head(lines)), Tail(lines))

\* parse_sse_response(content): {} for an empty body or when the loop raised
parse_sse_response(lines) ==
    IF lines = <<>> THEN EmptyDict
    ELSE LET st == ParseLines(InitialParseState, lines)
         IN  IF st.aborted THEN EmptyDict ELSE st.data

(***************************************************************************)
(* SpecSSE: the parser applied to every stream of at most MaxLines lines   *)
(***************************************************************************)
SSEAlphabet ==
    {MsgStart("claude-sonnet-4", "msg_1"),
     BlockStart("text"), BlockStart("tool_use"),
     Delta("text_delta", <<"a">>), Delta("text_delta", <<"b">>),
     Delta("input_json_delta", EmptyText),
     BlockStop, Ping, NoData, BadJson, NonObject}


(***************************************************************************)
(* MemoryService (src/mcp_mitm_mem0/memory_service.py).  Every method      *)
(* awaits the remote client once; a remote failure is logged and re-raised *)
(* as it is.  `script` lists what the remote client answers, call by call: *)
(* "ok" or the kind of failure message it raises.                          *)
(***************************************************************************)
RemoteFailures == {"timeout", "connection", "validation", "generic"}
RemoteOutcomes == {"ok"} \cup RemoteFailures

\* mutant of ServiceCall: a remote failure is swallowed and reported as success
ServiceCallSwallows(script) ==
    [calls |-> 1, returned |-> TRUE, error |-> "none", classified |-> FALSE]

\* the try/except of add_memory, search_memories, get_all_memories, delete_memory
ServiceCall(script) ==
    [calls |-> 1,
     returned |-> script[1] = "ok",
     error |-> IF script[1] = "ok" THEN "none" ELSE script[1],
     classified |-> FALSE]

(***************************************************************************)
(* Request payloads as json.loads returns them.                            *)
(***************************************************************************)
\* a block of a message whose content is a list
ReqTextBlock(text) == [type |-> "text", text |-> text, isStr |-> TRUE]
ReqToolResult(text) == [type |-> "tool_result", text |-> text, isStr |-> TRUE]
ReqToolResultList == [type |-> "tool_result", text |-> EmptyText, isStr |-> FALSE]
ReqImageBlock == [type |-> "image", text |-> EmptyText, isStr |-> TRUE]

StrMsg(role, text) == [role |-> role, isList |-> FALSE, text |-> text, blocks |-> <<>>]
ListMsg(role, blocks) ==
    [role |-> role, isList |-> TRUE, text |-> EmptyText, blocks |-> blocks]

RequestDict(hasModel, model, hasMessages, messages) ==
    [isDict |-> TRUE, hasModel |-> hasModel, model |-> model,
     hasMessages |-> hasMessages, messages |-> messages]
RequestNonDict ==
    [isDict |-> FALSE, hasModel |-> FALSE, model |-> "",
     hasMessages |-> FALSE, messages |-> <<>>]

\* flow.request.content: bytes json.loads rejects, or the value it yields
BadRequestBody == [parses |-> FALSE, data |-> RequestNonDict]
RequestBody(data) == [parses |-> TRUE, data |-> data]

\* flow.metadata without the key
NoRequest == [present |-> FALSE, data |-> RequestNonDict]
StoredRequest(data) == [present |-> TRUE, data |-> data]
NoConv == <<"None", "None">>

(***************************************************************************)
(* Response payloads on the wire: an event stream (content-type            *)
(* text/event-stream) or a single document, which json.loads rejects       *)
(* ("bad"), or parses to a falsy value ("falsy": {}, [], null, 0, ""), to  *)
(* a truthy value that is no object ("nondict") or to an object ("dict").  *)
(***************************************************************************)
StreamBody(lines) ==
    [streaming |-> TRUE, lines |-> lines, json |-> "none", data |-> EmptyDict]
JsonBody(kind, data) ==
    [streaming |-> FALSE, lines |-> <<>>, json |-> kind, data |-> data]
ResponseDict(hasModel, model, hasId, id, hasContent, content) ==
    [empty |-> FALSE, hasContent |-> hasContent, content |-> content,
     hasModel |-> hasModel, model |-> model, hasId |-> hasId, id |-> id]

(***************************************************************************)
(* Turn building (src/memory_addon.py:241-284)                             *)
(***************************************************************************)
Message(role, content) == [role |-> role, content |-> content]

\* variant of LastUserIndex: the list is walked from its first entry
FirstUserIndex(messages) ==
    IF \E k \in 1..Len(messages) : messages[k].role = "user"
    THEN CHOOSE k \in 1..Len(messages) :
            /\ messages[k].role = "user"
            /\ \A j \in 1..(k - 1) : messages[j].role # "user"
    ELSE 0

\* for msg in reversed(messages): if msg.get("role") == "user": ... break
RECURSIVE LastUserIndex(_)
LastUserIndex(messages) ==
    IF messages = <<>> THEN 0
    ELSE IF messages[Len(messages)].role = "user" THEN Len(messages)
    ELSE LastUserIndex(SubSeq(messages, 1, Len(messages) - 1))

\* text_parts of a list content: text of text blocks, content of tool results
RECURSIVE TextParts(_)
TextParts(blocks) ==
    IF blocks = <<>> THEN <<>>
    ELSE IF Head(blocks).type \in {"text", "tool_result"}
         THEN <<Head(blocks).text>> \o TextParts(Tail(blocks))
         ELSE TextParts(Tail(blocks))

\* " ".join(text_parts) raises TypeError when a part is not a string
JoinRaises(blocks) ==
    \E i \in 1..Len(blocks) : blocks[i].type = "tool_result" /\ ~blocks[i].isStr

\* variant of UserMessages: every user message with string content is kept,
\* the loop of lines 245-248 running without its break
UserMessagesOfEveryTurn(request_data) ==
    IF ~request_data.hasMessages THEN [raises |-> FALSE, messages |-> <<>>]
    ELSE LET kept == SelectSeq(request_data.messages,
                         LAMBDA m : m.role = "user" /\ ~m.isList /\ m.text # EmptyText)
         IN  [raises |-> FALSE,
              messages |-> [k \in 1..Len(kept) |-> Message("user", kept[k].text)]]

\* the user side: [raises, messages] for request_data
UserMessages(request_data) ==
    IF ~request_data.hasMessages \/ request_data.messages = <<>>
    THEN [raises |-> FALSE, messages |-> <<>>]
    ELSE LET i == LastUserIndex(request_data.messages)
         IN  IF i = 0 THEN [raises |-> FALSE, messages |-> <<>>]
             ELSE LET msg == request_data.messages[i]
                      content == IF msg.isList
                                 THEN Join(TextParts(msg.blocks), Space)
                                 ELSE msg.text
                  IN  IF msg.isList /\ JoinRaises(msg.blocks)
                      THEN [raises |-> TRUE, messages |-> <<>>]
                      ELSE [raises |-> FALSE,
                            messages |-> IF content # EmptyText
                                         THEN <<Message("user", content)>>
                                         ELSE <<>>]

\* [block.get("text", "") for block in content if block.get("type") == "text"]
RECURSIVE BlockTexts(_)
BlockTexts(content) ==
    IF content = <<>> THEN <<>>
    ELSE IF Head(content).type = "text"
         THEN <<IF Head(content).hasText THEN Head(content).text ELSE EmptyText>>
              \o BlockTexts(Tail(content))
         ELSE BlockTexts(Tail(content))

\* mutant of AssistantMessages: the test at line 278 is dropped
AssistantMessagesKeepsEmpty(response_data) ==
    IF ~response_data.hasContent \/ response_data.content = <<>> THEN <<>>
    ELSE <<Message("assistant", Join(BlockTexts(response_data.content), Space))>>

\* the assistant side for response_data
AssistantMessages(response_data) ==
    IF ~response_data.hasContent \/ response_data.content = <<>> THEN <<>>
    ELSE LET assistant_content == Join(BlockTexts(response_data.content), Space)
         IN  IF assistant_content # EmptyText
             THEN <<Message("assistant", assistant_content)>>
             ELSE <<>>

\* model.startswith("claude-3-5-haiku-")
HaikuModels == {"claude-3-5-haiku-20241022"}

\* mutant of IsExcludedModel: no model is excluded
NoModelExcluded(model) == FALSE

\* line 238
IsExcludedModel(model) == model \in HaikuModels

\* variant of ConvId: the key is numbered by the order of arrival
ConvIdByArrival(request_data, response_data) ==
    <<IF request_data.hasModel THEN request_data.model ELSE "unknown",
      ToString(add_calls)>>

\* f"{request_data.get('model', 'unknown')}_{response_data.get('id', 'unknown')}"
ConvId(request_data, response_data) ==
    <<IF request_data.hasModel THEN request_data.model ELSE "unknown",
      IF response_data.hasId THEN response_data.id ELSE "unknown">>

(***************************************************************************)
(* MemoryAddon.response up to the await of add_memory                      *)
(* (src/memory_addon.py:205-299).  The result says how the synchronous     *)
(* part ended, whether flow.metadata["processed_conv_id"] was written, and *)
(* the messages handed to add_memory when it got that far.                 *)
(*   incomplete         return at line 217                                 *)
(*   parse_error        json.loads raised at line 219                      *)
(*   empty              return at line 222                                 *)
(*   lookup_error       .get on a value that is no dict, line 225          *)
(*   already_processed  return at line 227                                 *)
(*   excluded           return at line 239                                 *)
(*   build_error        " ".join raised at line 263                        *)
(*   no_messages        the warning at line 357                            *)
(*   add                add_memory is awaited at line 301                  *)
(***************************************************************************)
HookResult(outcome, marks, conv, messages) ==
    [outcome |-> outcome, marks |-> marks, conv |-> conv, messages |-> messages]

\* the test at lines 214-216 on the reconstructed payload
StreamComplete(response_data) ==
    /\ response_data.hasContent
    /\ response_data.content # <<>>
    /\ response_data.content[1].text # EmptyText

\* mutant of AlreadyProcessed: the processed marker is never consulted
NeverProcessed(processed, conv_id) == FALSE

\* flow.metadata.get("processed_conv_id") == conv_id, line 226
AlreadyProcessed(processed, conv_id) == processed = conv_id

\* variant of ProcessResponseData: the marker is not written before
\* add_memory is awaited
ProcessResponseDataMarksLate(request_data, processed, response_data) ==
    IF ~request_data.isDict THEN HookResult("lookup_error", FALSE, NoConv, <<>>)
    ELSE LET conv_id == ConvId(request_data, response_data)
             user == UserMessages(request_data)
             messages == user.messages \o AssistantMessages(response_data)
         IN  IF AlreadyProcessed(processed, conv_id)
             THEN HookResult("already_processed", FALSE, conv_id, <<>>)
             ELSE IF IsExcludedModel(IF response_data.hasModel
                                     THEN response_data.model ELSE "")
             THEN HookResult("excluded", TRUE, conv_id, <<>>)
             ELSE IF user.raises
             THEN HookResult("build_error", TRUE, conv_id, <<>>)
             ELSE IF messages = <<>>
             THEN HookResult("no_messages", TRUE, conv_id, <<>>)
             ELSE HookResult("add", FALSE, conv_id, messages)

\* lines 224-299, once response_data is in hand
ProcessResponseData(request_data, processed, response_data) ==
    IF ~request_data.isDict THEN HookResult("lookup_error", FALSE, NoConv, <<>>)
    ELSE LET conv_id == ConvId(request_data, response_data)
             user == UserMessages(request_data)
             messages == user.messages \o AssistantMessages(response_data)
         IN  IF AlreadyProcessed(processed, conv_id)
             THEN HookResult("already_processed", FALSE, conv_id, <<>>)
             ELSE IF IsExcludedModel(IF response_data.hasModel
                                     THEN response_data.model ELSE "")
             THEN HookResult("excluded", TRUE, conv_id, <<>>)
             ELSE IF user.raises
             THEN HookResult("build_error", TRUE, conv_id, <<>>)
             ELSE IF messages = <<>>
             THEN HookResult("no_messages", TRUE, conv_id, <<>>)
             ELSE HookResult("add", TRUE, conv_id, messages)

\* lines 205-299 for the stored request, the flow's marker and the response
HookPrefix(request_data, processed, body) ==
    IF body.streaming
    THEN LET response_data == parse_sse_response(body.lines)
         IN  IF ~StreamComplete(response_data)
             THEN HookResult("incomplete", FALSE, NoConv, <<>>)
             ELSE ProcessResponseData(request_data, processed, response_data)
    ELSE CASE body.json = "bad" -> HookResult("parse_error", FALSE, NoConv, <<>>)
           [] body.json = "falsy" -> HookResult("empty", FALSE, NoConv, <<>>)
           [] body.json = "nondict" -> HookResult("lookup_error", FALSE, NoConv, <<>>)
           [] OTHER ->
                IF body.data.empty THEN HookResult("empty", FALSE, NoConv, <<>>)
                ELSE ProcessResponseData(request_data, processed, body.data)

\* outcomes that are exceptions raised inside the hook's try block
RaisedInside == {"parse_error", "lookup_error", "build_error", "add_raised"}

\* mutant of EscapesToHost: the re-raise at line 321 is not caught
StoreErrorEscapes(outcome) == outcome = "add_raised"

\* whether an exception raised inside the try block reaches the proxy host:
\* `except Exception` at lines 189 and 363 logs it and returns
EscapesToHost(outcome) == FALSE

\* variant of DequeExtend: a full window keeps its oldest entries
DequeExtendKeepsOldest(window, messages) ==
    LET all == window \o messages
    IN  IF Len(all) <= RECENT_MESSAGES_LIMIT THEN all
        ELSE SubSeq(all, 1, RECENT_MESSAGES_LIMIT)

\* deque.extend on a deque with maxlen: the newest RECENT_MESSAGES_LIMIT remain
DequeExtend(window, messages) ==
    LET all == window \o messages
    IN  IF Len(all) <= RECENT_MESSAGES_LIMIT THEN all
        ELSE SubSeq(all, Len(all) - RECENT_MESSAGES_LIMIT + 1, Len(all))

\* mutant of ThresholdReached: the counter must exceed the threshold
ThresholdExceeded(count) == count > REFLECTION_MESSAGE_THRESHOLD

\* variant of ThresholdReached: one message short of the threshold is enough
ThresholdNearlyReached(count) == count >= REFLECTION_MESSAGE_THRESHOLD - 1

\* self.message_count >= REFLECTION_MESSAGE_THRESHOLD, line 337
ThresholdReached(count) == count >= REFLECTION_MESSAGE_THRESHOLD

\* variant of SchedulerUpdate without the reset of line 355
SchedulerUpdateKeepsCount(window, count, messages) ==
    LET w == DequeExtend(window, messages)
        c == count + Len(messages)
    IN  [window |-> w, count |-> c, dispatched |-> ThresholdReached(c)]

\* the scheduler update at lines 334-355: [window, count, dispatched]
SchedulerUpdate(window, count, messages) ==
    LET w == DequeExtend(window, messages)
        c == count + Len(messages)
    IN  IF ThresholdReached(c)
        THEN [window |-> w, count |-> 0, dispatched |-> TRUE]
        ELSE [window |-> w, count |-> c, dispatched |-> FALSE]

\* flow.request.pretty_host and flow.request.path of the three kinds of flow
\* variant of InScopeHost: the hooks look at flows to every host
EveryHostInScope(target) == TRUE

\* "messages" is api.anthropic.com/v1/messages, "other_host" the same path on
\* another host, "other_path" another path on api.anthropic.com
InScopeHost(target) == target # "other_host"
InScopePath(target) == target # "other_path"


(***************************************************************************)
(* The background reflection unit, MemoryAddon._trigger_reflection_async   *)
(* (src/memory_addon.py:129-176), run as an asyncio task of its own.       *)
(***************************************************************************)
QUERY_PREFIX_CHARS == 100

RECURSIVE StripLeft(_)
StripLeft(text) ==
    IF text # <<>> /\ Head(text) = " " THEN StripLeft(Tail(text)) ELSE text

RECURSIVE StripRight(_)
StripRight(text) ==
    IF text # <<>> /\ text[Len(text)] = " "
    THEN StripRight(SubSeq(text, 1, Len(text) - 1))
    ELSE text

\* content[:100].strip()
CleanContent(content) ==
    LET n == IF Len(content) < QUERY_PREFIX_CHARS THEN Len(content)
             ELSE QUERY_PREFIX_CHARS
    IN  StripRight(StripLeft(SubSeq(content, 1, n)))

\* query_parts, lines 143-150
RECURSIVE QueryParts(_)
QueryParts(messages) ==
    IF messages = <<>> THEN <<>>
    ELSE LET clean == CleanContent(Head(messages).content)
         IN  (IF Head(messages).content # EmptyText /\ clean # EmptyText
              THEN <<clean>> ELSE <<>>)
             \o QueryParts(Tail(messages))

\* variant of create_task: the hook awaits the unit, which has run to its
\* end by the time the hook goes on
AwaitedUnit(snapshot) ==
    [pc |-> "done", messages |-> snapshot, search |-> "ok",
     context |-> "returned", reflect |-> "ok", raised |-> FALSE]

\* asyncio.create_task(self._trigger_reflection_async(messages=snapshot, ...)):
\* the unit exists and has not run yet when create_task returns
create_task(snapshot) ==
    [pc |-> "scheduled", messages |-> snapshot, search |-> "none",
     context |-> "none", reflect |-> "none", raised |-> FALSE]

\* variant of UnitStart: the unit reads the addon's live window when it
\* starts instead of the list it was handed
UnitStartOnLiveWindow(task) ==
    IF QueryParts(recent_messages) # <<>>
    THEN [task EXCEPT !.pc = "searching", !.messages = recent_messages]
    ELSE [task EXCEPT !.pc = "reflecting", !.search = "skipped",
                      !.context = "empty", !.messages = recent_messages]

\* the unit runs from its start to its first await: search_memories when
\* there is a query, else reflect_on_messages with context_memories = []
UnitStart(task) ==
    IF QueryParts(task.messages) # <<>>
    THEN [task EXCEPT !.pc = "searching"]
    ELSE [task EXCEPT !.pc = "reflecting", !.search = "skipped",
                      !.context = "empty"]

\* variant of UnitAfterSearch without the inner `except Exception` of line
\* 160: a failed search ends the unit in the handler of line 175
UnitAfterSearchUncaught(task, result) ==
    IF result.returned
    THEN [task EXCEPT !.pc = "reflecting", !.search = "ok", !.context = "returned"]
    ELSE [task EXCEPT !.pc = "done", !.search = "failed"]

\* memory_service.search_memories returned or raised (caught at line 160);
\* the unit goes on to await reflect_on_messages with what the search
\* returned, or with [] when it raised (line 166)
UnitAfterSearch(task, result) ==
    [task EXCEPT !.pc = "reflecting",
                 !.search = IF result.returned THEN "ok" ELSE "failed",
                 !.context = IF result.returned THEN "returned" ELSE "empty"]

\* variant of UnitAfterReflect without the `except Exception` of line 175
UnitAfterReflectUncaught(task, returned) ==
    [task EXCEPT !.pc = "done",
                 !.reflect = IF returned THEN "ok" ELSE "failed",
                 !.raised = ~returned]

\* reflection_agent.reflect_on_messages returned or raised (caught at line 175)
UnitAfterReflect(task, returned) ==
    [task EXCEPT !.pc = "done",
                 !.reflect = IF returned THEN "ok" ELSE "failed",
                 !.raised = FALSE]


(***************************************************************************)
(* The hooks as actions.  A flow is the mitmproxy flow object: the host    *)
(* calls request(flow) once, then response(flow) one or more times         *)
(* (spec.md section 6).  `last` records the step just taken.               *)
(***************************************************************************)
Step(hook, flow, outcome, repeat) ==
    [hook |-> hook, flow |-> flow, outcome |-> outcome, repeat |-> repeat,
     escaped |-> outcome \in RaisedInside /\ EscapesToHost(outcome)]

otherVars == <<sseVars, svcVars, toolVars, hookVars>>

\* variant: a body that json.loads rejects leaves an entry in flow.metadata
RequestStoresUnparsed(f) ==
    /\ flow_pc[f] = "new"
    /\ flow_pc' = [flow_pc EXCEPT ![f] = "requested"]
    /\ IF ~InScopeHost(flow_target[f]) \/ ~InScopePath(flow_target[f])
       THEN /\ claude_request' = claude_request
            /\ last' = Step("request", f, "out_of_scope", FALSE)
       ELSE /\ claude_request' = [claude_request EXCEPT
                                       ![f] = StoredRequest(request_body[f].data)]
            /\ last' = Step("request", f,
                            IF request_body[f].parses THEN "stored" ELSE "parse_error",
                            FALSE)
    /\ UNCHANGED <<flow_target, request_body, response_body, processed_conv_id,
                   message_count, recent_messages, pending, store, reflections,
                   tasks, add_calls, otherVars>>

\* variant: the parsed request is kept in one place for all flows rather
\* than in the metadata of its flow
RequestShared(f) ==
    /\ flow_pc[f] = "new"
    /\ flow_pc' = [flow_pc EXCEPT ![f] = "requested"]
    /\ IF ~InScopeHost(flow_target[f]) \/ ~InScopePath(flow_target[f])
       THEN /\ claude_request' = claude_request
            /\ last' = Step("request", f, "out_of_scope", FALSE)
       ELSE IF request_body[f].parses
       THEN /\ claude_request' = [g \in DOMAIN claude_request |->
                                       StoredRequest(request_body[f].data)]
            /\ last' = Step("request", f, "stored", FALSE)
       ELSE /\ claude_request' = claude_request
            /\ last' = Step("request", f, "parse_error", FALSE)
    /\ UNCHANGED <<flow_target, request_body, response_body, processed_conv_id,
                   message_count, recent_messages, pending, store, reflections,
                   tasks, add_calls, otherVars>>

\* MemoryAddon.request (src/memory_addon.py:178-190)
Request(f) ==
    /\ flow_pc[f] = "new"
    /\ flow_pc' = [flow_pc EXCEPT ![f] = "requested"]
    /\ IF ~InScopeHost(flow_target[f]) \/ ~InScopePath(flow_target[f])
       THEN /\ claude_request' = claude_request
            /\ last' = Step("request", f, "out_of_scope", FALSE)
       ELSE IF request_body[f].parses
       THEN /\ claude_request' = [claude_request EXCEPT
                                       ![f] = StoredRequest(request_body[f].data)]
            /\ last' = Step("request", f, "stored", FALSE)
       ELSE /\ claude_request' = claude_request
            /\ last' = Step("request", f, "parse_error", FALSE)
    /\ UNCHANGED <<flow_target, request_body, response_body, processed_conv_id,
                   message_count, recent_messages, pending, store, reflections,
                   tasks, add_calls, otherVars>>

\* MemoryAddon.response (src/memory_addon.py:192-299), up to the await; a
\* behaviour is explored up to `cap` invocations of add_memory
ResponseUpTo(f, cap) ==
    /\ flow_pc[f] \in {"requested", "responded"}
    /\ flow_pc' = [flow_pc EXCEPT ![f] = "responded"]
    /\ LET repeat == flow_pc[f] = "responded"
       IN  IF ~InScopeHost(flow_target[f])
           THEN /\ last' = Step("response", f, "out_of_scope", repeat)
                /\ UNCHANGED <<processed_conv_id, pending, add_calls>>
           ELSE IF ~(InScopePath(flow_target[f]) /\ claude_request[f].present)
           THEN /\ last' = Step("response", f, "uncorrelated", repeat)
                /\ UNCHANGED <<processed_conv_id, pending, add_calls>>
           ELSE LET r == HookPrefix(claude_request[f].data, processed_conv_id[f],
                                    response_body[f])
                IN  /\ last' = Step("response", f, r.outcome, repeat)
                    /\ processed_conv_id' =
                          IF r.marks
                          THEN [processed_conv_id EXCEPT ![f] = r.conv]
                          ELSE processed_conv_id
                    /\ IF r.outcome = "add"
                       THEN /\ add_calls < cap
                            /\ add_calls' = add_calls + 1
                            /\ pending' = Append(pending,
                                  [flow |-> f, conv |-> r.conv, messages |-> r.messages])
                       ELSE UNCHANGED <<pending, add_calls>>
    /\ UNCHANGED <<flow_target, request_body, response_body, claude_request,
                   message_count, recent_messages, store, reflections, tasks,
                   otherVars>>

Response(f) == ResponseUpTo(f, MaxAdds)

RemoveAt(seq, i) == SubSeq(seq, 1, i - 1) \o SubSeq(seq, i + 1, Len(seq))

\* variant: the scheduler is updated whether or not add_memory succeeded
AddReturnsUngated(i, script) ==
    /\ i \in 1..Len(pending)
    /\ LET call == pending[i]
           result == ServiceCall(script)
           upd == SchedulerUpdate(recent_messages, message_count, call.messages)
       IN  /\ pending' = RemoveAt(pending, i)
           /\ recent_messages' = upd.window
           /\ message_count' = upd.count
           /\ reflections' = IF upd.dispatched
                             THEN Append(reflections, upd.window)
                             ELSE reflections
           /\ tasks' = IF upd.dispatched
                       THEN Append(tasks, create_task(upd.window))
                       ELSE tasks
           /\ IF result.returned
              THEN /\ store' = Append(store, [conv |-> call.conv,
                                               messages |-> call.messages])
                   /\ last' = Step("add_return", call.flow, "stored", FALSE)
              ELSE /\ last' = Step("add_return", call.flow, "add_raised", FALSE)
                   /\ UNCHANGED store
    /\ UNCHANGED <<flowVars, add_calls, otherVars>>

\* variant: the counter is updated apart from the window, and its update is
\* lost whenever another hook is suspended in add_memory
AddReturnsTorn(i, script) ==
    /\ i \in 1..Len(pending)
    /\ LET call == pending[i]
           result == ServiceCall(script)
           upd == SchedulerUpdate(recent_messages, message_count, call.messages)
           alone == Len(pending) = 1
       IN  /\ pending' = RemoveAt(pending, i)
           /\ IF result.returned
              THEN /\ store' = Append(store, [conv |-> call.conv,
                                               messages |-> call.messages])
                   /\ recent_messages' = upd.window
                   /\ message_count' = IF alone THEN upd.count ELSE message_count
                   /\ reflections' = IF upd.dispatched /\ alone
                                     THEN Append(reflections, upd.window)
                                     ELSE reflections
                   /\ tasks' = IF upd.dispatched /\ alone
                               THEN Append(tasks, create_task(upd.window))
                               ELSE tasks
                   /\ last' = Step("add_return", call.flow, "stored", FALSE)
              ELSE /\ last' = Step("add_return", call.flow, "add_raised", FALSE)
                   /\ UNCHANGED <<store, recent_messages, message_count, reflections,
                                  tasks>>
    /\ UNCHANGED <<flowVars, add_calls, otherVars>>

\* MemoryAddon.response from the await on (src/memory_addon.py:300-364):
\* add_memory returns or raises for the i-th suspended hook
AddReturns(i, script) ==
    /\ i \in 1..Len(pending)
    /\ LET call == pending[i]
           result == ServiceCall(script)
           upd == SchedulerUpdate(recent_messages, message_count, call.messages)
       IN  /\ pending' = RemoveAt(pending, i)
           /\ IF result.returned
              THEN /\ store' = Append(store, [conv |-> call.conv,
                                               messages |-> call.messages])
                   /\ recent_messages' = upd.window
                   /\ message_count' = upd.count
                   /\ reflections' = IF upd.dispatched
                                     THEN Append(reflections, upd.window)
                                     ELSE reflections
                   /\ tasks' = IF upd.dispatched
                               THEN Append(tasks, create_task(upd.window))
                               ELSE tasks
                   /\ last' = Step("add_return", call.flow, "stored", FALSE)
              ELSE /\ last' = Step("add_return", call.flow, "add_raised", FALSE)
                   /\ UNCHANGED <<store, recent_messages, message_count, reflections,
                                  tasks>>
    /\ UNCHANGED <<flowVars, add_calls, otherVars>>

\* the event loop starts the i-th unit: it runs to its first await
TaskStart(i) ==
    /\ i \in 1..Len(tasks)
    /\ tasks[i].pc = "scheduled"
    /\ tasks' = [tasks EXCEPT ![i] = UnitStart(tasks[i])]
    /\ last' = Step("reflection", "none", "started", FALSE)
    /\ UNCHANGED <<flowVars, message_count, recent_messages, pending, store,
                   reflections, add_calls, otherVars>>

\* search_memories returns or raises for the i-th unit
SearchReturns(i, script) ==
    /\ i \in 1..Len(tasks)
    /\ tasks[i].pc = "searching"
    /\ tasks' = [tasks EXCEPT ![i] = UnitAfterSearch(tasks[i], ServiceCall(script))]
    /\ last' = Step("reflection", "none", "searched", FALSE)
    /\ UNCHANGED <<flowVars, message_count, recent_messages, pending, store,
                   reflections, add_calls, otherVars>>

\* reflect_on_messages returns or raises for the i-th unit, which then ends
ReflectReturns(i, returned) ==
    /\ i \in 1..Len(tasks)
    /\ tasks[i].pc = "reflecting"
    /\ tasks' = [tasks EXCEPT ![i] = UnitAfterReflect(tasks[i], returned)]
    /\ last' = Step("reflection", "none", "ended", FALSE)
    /\ UNCHANGED <<flowVars, message_count, recent_messages, pending, store,
                   reflections, add_calls, otherVars>>


(***************************************************************************)
(* ReflectionAgent.suggest_next_steps                                      *)
(* (src/mcp_mitm_mem0/reflection_agent.py:209-274).  A stored memory is    *)
(* represented by what the keyword tests read from its content: the issue  *)
(* patterns and project patterns it matches, whether it matches a          *)
(* completion keyword, and whether its content is a string at all.         *)
(***************************************************************************)
MAX_SUGGESTIONS == 10

IssueOrder ==
    <<"CORS issues", "type errors", "import/export issues", "build errors",
      "API errors", "dependency issues">>
ProjectOrder ==
    <<"authentication system", "API development", "frontend application",
      "database integration", "testing framework">>

Range(seq) == {seq[k] : k \in 1..Len(seq)}

StoredMemory(issues, projects, completed, isStr) ==
    [issues |-> issues, projects |-> projects, completed |-> completed,
     isStr |-> isStr]

\* per memory, the issue (project) patterns its content matches; a memory
\* whose content is no string is skipped
IssueMatches(memories) ==
    [k \in 1..Len(memories) |->
        IF memories[k].isStr THEN memories[k].issues ELSE {}]
ProjectMatches(memories) ==
    [k \in 1..Len(memories) |->
        IF memories[k].isStr THEN memories[k].projects ELSE {}]

\* the keys of the counting dict in insertion order: memory by memory, and
\* within a memory in the order of the pattern table
RECURSIVE KeysInOrder(_, _, _)
KeysInOrder(matches, order, seen) ==
    IF matches = <<>> THEN seen
    ELSE KeysInOrder(Tail(matches), order,
            seen \o SelectSeq(order,
                        LAMBDA t : t \in Head(matches) /\ t \notin Range(seen)))

MentionCount(matches, t) == Cardinality({k \in 1..Len(matches) : t \in matches[k]})

\* _identify_recurring_issues, lines 558-585
RecurringIssues(memories) ==
    LET matches == IssueMatches(memories)
    IN  SelectSeq(KeysInOrder(matches, IssueOrder, <<>>),
                  LAMBDA t : MentionCount(matches, t) > 1)

\* _identify_incomplete_projects, lines 587-626
IncompleteProjects(memories) ==
    LET matches == ProjectMatches(memories)
        done(t) == \E k \in 1..Len(memories) :
                      t \in matches[k] /\ memories[k].completed
    IN  SelectSeq(KeysInOrder(matches, ProjectOrder, <<>>),
                  LAMBDA t : MentionCount(matches, t) > 1 /\ ~done(t))

Insight(type, about, hasExamples) ==
    [type |-> type, about |-> about, hasExamples |-> hasExamples]
Suggestion(kind, about) == [kind |-> kind, about |-> about]

\* the loop over insights, lines 237-257
RECURSIVE InsightSuggestions(_)
InsightSuggestions(insights) ==
    IF insights = <<>> THEN <<>>
    ELSE LET i == Head(insights)
         IN  (CASE i.type = "frequent_questions" ->
                     IF i.hasExamples
                     THEN <<Suggestion("reference_guide", i.about)>>
                     ELSE <<Suggestion("faq", "")>>
                [] i.type = "focus_area" -> <<Suggestion("deep_dive", i.about)>>
                [] i.type = "problem_solving_pattern" -> <<Suggestion("break_down", "")>>
                [] OTHER -> <<>>)
             \o InsightSuggestions(Tail(insights))

RECURSIVE AboutEach(_, _)
AboutEach(kind, items) ==
    IF items = <<>> THEN <<>>
    ELSE <<Suggestion(kind, Head(items))>> \o AboutEach(kind, Tail(items))

\* the suggestions collected at lines 234-268, before the cut at line 270
CollectedSuggestions(env) ==
    InsightSuggestions(env.analysis.insights)
    \o AboutEach("document_solution", RecurringIssues(env.issues.memories))
    \o AboutEach("resume_project", IncompleteProjects(env.projects.memories))

\* variant of suggest_next_steps without the cut `[:10]`
SuggestNextStepsUncut(env) ==
    IF ~env.analysis.returned \/ ~env.issues.returned \/ ~env.projects.returned
    THEN <<>>
    ELSE CollectedSuggestions(env)

\* suggest_next_steps: [] when the analysis or a search raised (line 272),
\* else the first ten suggestions
suggest_next_steps(env) ==
    IF ~env.analysis.returned \/ ~env.issues.returned \/ ~env.projects.returned
    THEN <<>>
    ELSE LET all == CollectedSuggestions(env)
         IN  IF Len(all) <= MAX_SUGGESTIONS THEN all
             ELSE SubSeq(all, 1, MAX_SUGGESTIONS)

(***************************************************************************)
(* The MCP tools (src/mcp_mitm_mem0/mcp_server.py): each awaits one call   *)
(* of the memory service or of the reflection agent inside try/except.     *)
(***************************************************************************)
ToolNames ==
    {"search_memories", "list_memories", "add_memory", "delete_memory",
     "analyze_conversations", "suggest_next_actions"}

\* the text before ": " in the RuntimeError each tool raises
ErrorPrefix(tool) ==
    CASE tool = "search_memories" -> "Search failed"
      [] tool = "list_memories" -> "List failed"
      [] tool = "add_memory" -> "Add failed"
      [] tool = "delete_memory" -> "Delete failed"
      [] tool = "analyze_conversations" -> "Analysis failed"
      [] OTHER -> "Failed to generate suggestions"

Underlying(ref) == [kind |-> "result", ref |-> ref]
Confirmation(memory_id) == [kind |-> "deleted", ref |-> memory_id]
NoValue == [kind |-> "none", ref |-> ""]
NoError == <<"", "">>

ToolOutput(raised, value, error, suggestions) ==
    [raised |-> raised, value |-> value, error |-> error,
     suggestions |-> suggestions]

\* variant of ToolCall: a failure of the wrapped call is logged and swallowed
ToolCallSwallows(tool, env) ==
    IF tool = "suggest_next_actions"
    THEN ToolOutput(FALSE, NoValue, NoError, suggest_next_steps(env))
    ELSE IF env.answer.returned
    THEN ToolOutput(FALSE,
                    IF tool = "delete_memory" THEN Confirmation(env.memory_id)
                    ELSE Underlying(env.answer.value),
                    NoError, <<>>)
    ELSE ToolOutput(FALSE, NoValue, NoError, <<>>)

\* the body of a tool: return what it returns, or raise
\* RuntimeError(f"<prefix>: {str(e)}")
ToolCall(tool, env) ==
    IF tool = "suggest_next_actions"
    THEN ToolOutput(FALSE, NoValue, NoError, suggest_next_steps(env))
    ELSE IF env.answer.returned
    THEN ToolOutput(FALSE,
                    IF tool = "delete_memory" THEN Confirmation(env.memory_id)
                    ELSE Underlying(env.answer.value),
                    NoError, <<>>)
    ELSE ToolOutput(TRUE, NoValue, <<ErrorPrefix(tool), env.answer.error>>, <<>>)

(***************************************************************************)
(* Idle values of the variables a specification does not use               *)
(***************************************************************************)
Unparsed == [parsed |-> FALSE, data |-> EmptyDict]

(***************************************************************************)
(* The automatic reflection hook (src/hooks/auto_reflection_hook.py): the  *)
(* session file holds conversation_stats, which update_session_stats       *)
(* reads, updates for one hook event and writes back.                      *)
(***************************************************************************)
MESSAGE_TRIGGER == 20       \* REFLECTION_TRIGGERS["message_count"]
ERROR_TRIGGER == 3          \* REFLECTION_TRIGGERS["error_count"]
TOOL_TRIGGER == 15          \* REFLECTION_TRIGGERS["tool_count"]
COMPLEXITY_TRIGGER == 50    \* REFLECTION_TRIGGERS["complexity_score"]

\* a message of data["messages"], by what calculate_conversation_complexity
\* looks at: a tool_name key, an error word, more than 1000 characters, a
\* code fence, the name of an editing tool
HookMessage(tool, error, long, code, edit) ==
    [tool |-> tool, error |-> error, long |-> long, code |-> code, edit |-> edit]

RECURSIVE calculate_conversation_complexity(_)
calculate_conversation_complexity(messages) ==
    IF messages = <<>> THEN 0
    ELSE LET msg == Head(messages)
         IN  (IF msg.tool THEN 3 ELSE 0) + (IF msg.error THEN 5 ELSE 0)
             + (IF msg.long THEN 2 ELSE 0) + (IF msg.code THEN 2 ELSE 0)
             + (IF msg.edit THEN 3 ELSE 0)
             + calculate_conversation_complexity(Tail(messages))

\* conversation_stats
Stats(messages, errors, tools, complexity) ==
    [messages |-> messages, errors |-> errors, tools |-> tools,
     complexity |-> complexity]

\* the stats a session starts with (lines 145-151), also those of a reset
FreshStats == Stats(0, 0, 0, 0)

\* should_trigger_reflection (lines 59-86).  session_data has no "start_time"
\* key (update_session_stats writes the start time inside conversation_stats,
\* line 150), so the elapsed-time test of lines 76-80 is skipped.
should_trigger_reflection(stats) ==
    \/ stats.messages >= MESSAGE_TRIGGER
    \/ stats.errors >= ERROR_TRIGGER
    \/ stats.tools >= TOOL_TRIGGER
    \/ stats.complexity >= COMPLEXITY_TRIGGER

\* the hook's input: type "response" (with or without an error word in the
\* response text), a tool use, or neither; with or without a "messages" key
HookData(type, error, has_messages, messages) ==
    [type |-> type, error |-> error, has_messages |-> has_messages,
     messages |-> messages]

\* the counters after lines 156-170
CountEvent(stats, data) ==
    LET counted ==
            IF data.type = "response"
            THEN [stats EXCEPT !.messages = @ + 1,
                               !.errors = IF data.error THEN @ + 1 ELSE @]
            ELSE IF data.type = "tool" THEN [stats EXCEPT !.tools = @ + 1]
            ELSE stats
    IN  IF data.has_messages
        THEN [counted EXCEPT
                 !.complexity = calculate_conversation_complexity(data.messages)]
        ELSE counted

\* variant of update_session_stats: the counters are reset whenever the
\* analysis was asked for, whatever it returned
UpdateResetsOnTrigger(stats, data, analysis) ==
    LET counted == CountEvent(stats, data)
        triggered == should_trigger_reflection(counted)
        called == triggered /\ data.messages # <<>>
    IN  [stats |-> IF called THEN FreshStats ELSE counted,
         triggered |-> triggered, called |-> called,
         reset |-> called /\ analysis = "analysis"]

\* update_session_stats (lines 137-195) on the stats read from the session
\* file; `analysis` is what trigger_reflection_analysis gives when called:
\* "analysis" (a non-empty result), "empty" (a falsy one) or "failed" (None)
update_session_stats(stats, data, analysis) ==
    LET counted == CountEvent(stats, data)
        triggered == should_trigger_reflection(counted)
        called == triggered /\ data.messages # <<>>
        reset == called /\ analysis = "analysis"
    IN  [stats |-> IF reset THEN FreshStats ELSE counted,
         triggered |-> triggered, called |-> called, reset |-> reset]

\* the session file before the first event, and the record of no event
NoSession == [present |-> FALSE, stats |-> FreshStats]
NoHookEvent ==
    [type |-> "none", messages_key |-> FALSE, triggered |-> FALSE,
     called |-> FALSE, reset |-> FALSE]

HookIdle ==
    /\ session_data = NoSession
    /\ hook_event = NoHookEvent

SSEIdle ==
    /\ sse_content = <<>>
    /\ sse_result = Unparsed

SvcIdle ==
    /\ svc_op = "none"
    /\ svc_script = <<>>
    /\ svc_pc = "idle"
    /\ svc_calls = 0
    /\ svc_error = [kind |-> "none", classified |-> FALSE]

\* what the calls a tool wraps will answer
Answer(returned, value, error) ==
    [returned |-> returned, value |-> value, error |-> error]
SearchAnswer(returned, memories) == [returned |-> returned, memories |-> memories]
AnalysisAnswer(returned, insights) == [returned |-> returned, insights |-> insights]
Env(answer, memory_id, analysis, issues, projects) ==
    [answer |-> answer, memory_id |-> memory_id, analysis |-> analysis,
     issues |-> issues, projects |-> projects]

IdleEnv ==
    Env(Answer(FALSE, "", ""), "", AnalysisAnswer(FALSE, <<>>),
        SearchAnswer(FALSE, <<>>), SearchAnswer(FALSE, <<>>))

ToolIdle ==
    /\ tool_pc = "idle"
    /\ tool_name = "none"
    /\ tool_env = IdleEnv
    /\ tool_out = ToolOutput(FALSE, NoValue, NoError, <<>>)

NoStep == Step("none", "none", "none", FALSE)

AddonIdle ==
    /\ flow_pc = <<>>
    /\ flow_target = <<>>
    /\ request_body = <<>>
    /\ response_body = <<>>
    /\ claude_request = <<>>
    /\ processed_conv_id = <<>>
    /\ message_count = 0
    /\ recent_messages = <<>>
    /\ pending = <<>>
    /\ store = <<>>
    /\ reflections = <<>>
    /\ tasks = <<>>
    /\ add_calls = 0
    /\ last = NoStep

(***************************************************************************)
(* SpecSSE                                                                 *)
(***************************************************************************)
InitSSE ==
    /\ sse_content \in SeqsUpTo(SSEAlphabet, MaxLines)
    /\ sse_result = Unparsed
    /\ SvcIdle
    /\ HookIdle
    /\ ToolIdle
    /\ AddonIdle

ParseStream ==
    /\ sse_result = Unparsed
    /\ sse_result' = [parsed |-> TRUE, data |-> parse_sse_response(sse_content)]
    /\ UNCHANGED <<sse_content, svcVars, flowVars, addonVars, toolVars, hookVars>>

NextSSE == ParseStream

SpecSSE == InitSSE /\ [][NextSSE]_vars

(***************************************************************************)
(* SpecService                                                             *)
(***************************************************************************)
ServiceOps == {"add_memory", "search_memories", "get_all_memories", "delete_memory"}

Scripts(n) == SeqsUpTo(RemoteOutcomes, n) \ {<<>>}

InitService ==
    /\ SSEIdle
    /\ SvcIdle
    /\ HookIdle
    /\ ToolIdle
    /\ AddonIdle

\* a caller awaits one of the four methods; the remote will answer by `script`
Invoke(op, script) ==
    /\ svc_pc = "idle"
    /\ svc_pc' = "calling"
    /\ svc_op' = op
    /\ svc_script' = script
    /\ UNCHANGED <<svc_calls, svc_error, sseVars, flowVars, addonVars, toolVars, hookVars>>

\* the method runs to its return or raise
Complete ==
    /\ svc_pc = "calling"
    /\ LET r == ServiceCall(svc_script)
       IN  /\ svc_calls' = r.calls
           /\ svc_pc' = IF r.returned THEN "returned" ELSE "raised"
           /\ svc_error' = [kind |-> r.error, classified |-> r.classified]
    /\ UNCHANGED <<svc_op, svc_script, sseVars, flowVars, addonVars, toolVars, hookVars>>

NextService ==
    \/ \E op \in ServiceOps, script \in Scripts(MaxScript) : Invoke(op, script)
    \/ Complete

SpecService == InitService /\ [][NextService]_vars

(***************************************************************************)
(* SpecTools: one MCP tool invoked against every answer of the call it     *)
(* wraps; for suggest_next_actions the wrapped suggest_next_steps runs on  *)
(* every answer of the analysis and of its two searches.                   *)
(***************************************************************************)
ToolAnswers ==
    {Answer(TRUE, v, "") : v \in {"result_1", "result_2"}}
    \cup {Answer(FALSE, "", e) : e \in {"API timeout", "Connection error"}}

MemoryIds == {"mem-1", "mem-2"}

MemoryKinds ==
    {StoredMemory({}, {}, FALSE, TRUE),
     StoredMemory(Range(IssueOrder), {}, FALSE, TRUE),
     StoredMemory({}, Range(ProjectOrder), FALSE, TRUE),
     StoredMemory({"API errors"}, {"API development"}, TRUE, TRUE),
     StoredMemory(Range(IssueOrder), Range(ProjectOrder), FALSE, FALSE)}

SearchAnswers ==
    {SearchAnswer(FALSE, <<>>)}
    \cup {SearchAnswer(TRUE, m) : m \in SeqsUpTo(MemoryKinds, MaxMemories)}

AllInsights ==
    <<Insight("frequent_questions", "react", TRUE),
      Insight("focus_area", "coding", FALSE),
      Insight("problem_solving_pattern", "", FALSE)>>

AnalysisAnswers ==
    {AnalysisAnswer(FALSE, <<>>)}
    \cup {AnalysisAnswer(TRUE, SelectSeq(AllInsights, LAMBDA i : i.type \in keep)) :
             keep \in SUBSET {"frequent_questions", "focus_area",
                              "problem_solving_pattern"}}

ToolEnvs(tool) ==
    IF tool = "suggest_next_actions"
    THEN {Env(IdleEnv.answer, IdleEnv.memory_id, a, i, p) :
             a \in AnalysisAnswers, i \in SearchAnswers, p \in SearchAnswers}
    ELSE {Env(w, m, IdleEnv.analysis, IdleEnv.issues, IdleEnv.projects) :
             w \in ToolAnswers, m \in MemoryIds}

InitTools ==
    /\ SSEIdle
    /\ SvcIdle
    /\ HookIdle
    /\ ToolIdle
    /\ AddonIdle

\* the MCP client invokes a tool; the calls it wraps will answer by `env`
InvokeTool(tool, env) ==
    /\ tool_pc = "idle"
    /\ tool_pc' = "called"
    /\ tool_name' = tool
    /\ tool_env' = env
    /\ UNCHANGED <<tool_out, sseVars, svcVars, flowVars, addonVars, hookVars>>

\* the tool runs to its return or raise
ToolCompletes ==
    /\ tool_pc = "called"
    /\ LET out == ToolCall(tool_name, tool_env)
       IN  /\ tool_out' = out
           /\ tool_pc' = IF out.raised THEN "raised" ELSE "returned"
    /\ UNCHANGED <<tool_name, tool_env, sseVars, svcVars, flowVars, addonVars, hookVars>>

NextTools ==
    \/ /\ tool_pc = "idle"
       /\ \E tool \in ToolNames : \E env \in ToolEnvs(tool) : InvokeTool(tool, env)
    \/ ToolCompletes

SpecTools == InitTools /\ [][NextTools]_vars


(***************************************************************************)
(* ReflectionAgent.analyze_recent_conversations and reflect_on_messages    *)
(* (src/mcp_mitm_mem0/reflection_agent.py:32-83, 276-349).  A memory is    *)
(* represented by its id ("" when it has none), its created_at, and what   *)
(* the keyword tests of _analyze_patterns read from its content.           *)
(***************************************************************************)
MIN_QUERIES == 2
MAX_QUERIES == 5
QUESTIONS_NEEDED == 3
APPROACHES_NEEDED == 2

AgentMemory(id, created_at, question, coding, approach) ==
    [id |-> id, created_at |-> created_at, question |-> question,
     coding |-> coding, approach |-> approach]

\* seq[:n] for n >= 0
Take(seq, n) == IF n >= Len(seq) THEN seq ELSE SubSeq(seq, 1, n)

\* sorted(..., key=created_at, reverse=True): newest first, equal keys in
\* their original order
RECURSIVE InsertNewestFirst(_, _)
InsertNewestFirst(sorted, m) ==
    IF sorted = <<>> THEN <<m>>
    ELSE IF Head(sorted).created_at >= m.created_at
    THEN <<Head(sorted)>> \o InsertNewestFirst(Tail(sorted), m)
    ELSE <<m>> \o sorted

RECURSIVE SortNewestFirst(_, _)
SortNewestFirst(memories, n) ==
    IF n = 0 THEN <<>>
    ELSE InsertNewestFirst(SortNewestFirst(memories, n - 1), memories[n])

\* relevant_memories.extend(memories) over the queries; a search that raised
\* adds nothing (lines 455-465)
RECURSIVE ExtendAll(_)
ExtendAll(searches) ==
    IF searches = <<>> THEN <<>>
    ELSE (IF Head(searches).returned THEN Head(searches).memories ELSE <<>>)
         \o ExtendAll(Tail(searches))

\* variant of RelevantMemories without the cut `[:remaining_limit]`
RelevantMemoriesUncut(searches, remaining_limit) ==
    IF remaining_limit <= 0 THEN <<>> ELSE ExtendAll(searches)

\* _get_relevant_memories_for_analysis (lines 440-467)
RelevantMemories(searches, remaining_limit) ==
    IF remaining_limit <= 0 THEN <<>>
    ELSE Take(ExtendAll(searches), remaining_limit)

\* _deduplicate_memories (lines 521-534): `seen` is seen_ids
RECURSIVE Deduplicate(_, _)
Deduplicate(memories, seen) ==
    IF memories = <<>> THEN <<>>
    ELSE LET m == Head(memories)
         IN  IF m.id = "" THEN <<m>> \o Deduplicate(Tail(memories), seen)
             ELSE IF m.id \in seen THEN Deduplicate(Tail(memories), seen)
             ELSE <<m>> \o Deduplicate(Tail(memories), seen \cup {m.id})

\* _analyze_patterns (lines 85-151)
PatternInsights(memories) ==
    (IF Len(SelectSeq(memories, LAMBDA m : m.question)) > QUESTIONS_NEEDED
     THEN <<Insight("frequent_questions", "", TRUE)>> ELSE <<>>)
    \o (IF Len(SelectSeq(memories, LAMBDA m : m.coding)) > 0
        THEN <<Insight("focus_area", "coding", FALSE)>> ELSE <<>>)
    \o (IF Len(SelectSeq(memories, LAMBDA m : m.approach)) > APPROACHES_NEEDED
        THEN <<Insight("problem_solving_pattern", "", FALSE)>> ELSE <<>>)

\* what the agent returns or raises, and what it did on the way
\* (`path` names the routine that produced it, `limit` the limit the analysis
\* ran with, `stored` whether a reflection memory was added)
AgentOutput(raised, status, combined, recent_count, relevant_count, insights, stored, path, limit) ==
    [raised |-> raised, status |-> status, combined |-> combined,
     recent_count |-> recent_count, relevant_count |-> relevant_count,
     insights |-> insights, stored |-> stored, path |-> path,
     limit |-> limit]

AgentRaises(path, limit) ==
    AgentOutput(TRUE, "none", <<>>, 0, 0, <<>>, FALSE, path, limit)

\* analyze_recent_conversations(user_id, limit) against the answers `env` of
\* get_all_memories, of the searches and of add_memory
AnalyzeOn(env, limit, path) ==
    IF ~env.all.returned THEN AgentRaises(path, limit)
    ELSE IF env.all.memories = <<>>
    THEN AgentOutput(FALSE, "no_memories", <<>>, 0, 0, <<>>, FALSE, path, limit)
    ELSE LET recent == Take(SortNewestFirst(env.all.memories,
                                            Len(env.all.memories)),
                            limit \div 2)
             relevant == RelevantMemories(env.searches, limit - Len(recent))
             combined == Deduplicate(recent \o relevant, {})
             insights == PatternInsights(combined)
         IN  IF insights # <<>> /\ ~env.store_returns
             THEN AgentRaises(path, limit)
             ELSE AgentOutput(FALSE, "analyzed", combined, Len(recent),
                              Len(relevant), insights, insights # <<>>, path,
                              limit)

analyze_recent_conversations(env) == AnalyzeOn(env, env.limit, "analysis")

\* variant of reflect_on_messages without the fallback of lines 343-346
ReflectWithoutFallback(env) ==
    IF env.enhanced \in {"completed", "no_insights"}
    THEN AgentOutput(FALSE, env.enhanced, <<>>, 0, 0, <<>>,
                     env.enhanced = "completed", "enhanced", 0)
    ELSE AgentRaises("enhanced", 0)

\* reflect_on_messages(messages, context_memories): `env.enhanced` says how
\* the enhanced reflection of lines 294-339 ends ("completed", "no_insights",
\* or raising in the query or in _store_enhanced_reflection), and
\* env.n_messages is len(messages)
reflect_on_messages(env) ==
    IF env.enhanced \in {"completed", "no_insights"}
    THEN AgentOutput(FALSE, env.enhanced, <<>>, 0, 0, <<>>,
                     env.enhanced = "completed", "enhanced", 0)
    ELSE AnalyzeOn(env, env.n_messages, "fallback")

(***************************************************************************)
(* SpecAgent: one call of analyze_recent_conversations or of               *)
(* reflect_on_messages against every answer of the calls it makes.         *)
(***************************************************************************)
AgentEnv(all, searches, store_returns, limit, enhanced, n_messages) ==
    [all |-> all, searches |-> searches, store_returns |-> store_returns,
     limit |-> limit, enhanced |-> enhanced, n_messages |-> n_messages]

MemoryPool ==
    {AgentMemory("m1", 2, TRUE, TRUE, TRUE),
     AgentMemory("m2", 1, FALSE, FALSE, FALSE),
     AgentMemory("", 2, FALSE, FALSE, TRUE)}

StoredMemories ==
    {SearchAnswer(FALSE, <<>>)}
    \cup {SearchAnswer(TRUE, m) : m \in SeqsUpTo(MemoryPool, MaxMemories)}

FoundMemories ==
    {<<>>,
     <<AgentMemory("m1", 2, TRUE, TRUE, TRUE)>>,
     <<AgentMemory("m2", 1, FALSE, FALSE, FALSE),
       AgentMemory("m1", 2, TRUE, TRUE, TRUE)>>,
     <<AgentMemory("", 2, FALSE, FALSE, TRUE)>>}

\* one answer per search query: the first `failing` searches raise, the
\* others return `found`
QueryAnswers ==
    {[k \in 1..n |-> IF k <= failing THEN SearchAnswer(FALSE, <<>>)
                     ELSE SearchAnswer(TRUE, found)] :
        n \in MIN_QUERIES..MAX_QUERIES, failing \in 0..MAX_QUERIES,
        found \in FoundMemories}

Limits == 0..(MaxMemories + 1)

AnalysisEnvs ==
    {AgentEnv(a, s, r, l, "none", 0) :
        a \in StoredMemories, s \in QueryAnswers, r \in BOOLEAN, l \in Limits}

ReflectEnvs ==
    {AgentEnv(SearchAnswer(FALSE, <<>>), <<>>, FALSE, 0, e, n) :
        e \in {"completed", "no_insights"}, n \in Limits}
    \cup {AgentEnv(a, s, r, 0, e, n) :
             a \in StoredMemories, s \in QueryAnswers, r \in BOOLEAN,
             e \in {"query_raises", "store_raises"}, n \in Limits}

AgentIdleOutput == AgentOutput(FALSE, "none", <<>>, 0, 0, <<>>, FALSE, "none", 0)

InitAgent ==
    /\ SSEIdle
    /\ SvcIdle
    /\ HookIdle
    /\ AddonIdle
    /\ tool_pc = "idle"
    /\ tool_name = "none"
    /\ tool_env = AgentEnv(SearchAnswer(FALSE, <<>>), <<>>, FALSE, 0, "none", 0)
    /\ tool_out = AgentIdleOutput

\* a caller awaits the routine; the calls it makes will answer by `env`
InvokeAgent(routine, env) ==
    /\ tool_pc = "idle"
    /\ tool_pc' = "called"
    /\ tool_name' = routine
    /\ tool_env' = env
    /\ UNCHANGED <<tool_out, sseVars, svcVars, flowVars, addonVars, hookVars>>

\* the routine runs to its return or raise
AgentCompletes ==
    /\ tool_pc = "called"
    /\ LET out == IF tool_name = "reflect_on_messages"
                  THEN reflect_on_messages(tool_env)
                  ELSE analyze_recent_conversations(tool_env)
       IN  /\ tool_out' = out
           /\ tool_pc' = IF out.raised THEN "raised" ELSE "returned"
    /\ UNCHANGED <<tool_name, tool_env, sseVars, svcVars, flowVars, addonVars, hookVars>>

NextAgent ==
    \/ /\ tool_pc = "idle"
       /\ \E env \in AnalysisEnvs :
             InvokeAgent("analyze_recent_conversations", env)
    \/ /\ tool_pc = "idle"
       /\ \E env \in ReflectEnvs : InvokeAgent("reflect_on_messages", env)
    \/ AgentCompletes

SpecAgent == InitAgent /\ [][NextAgent]_vars

(***************************************************************************)
(* SpecHook: a session of hook events handled by update_session_stats, the *)
(* reflection analysis returning a result, an empty one, or failing.       *)
(***************************************************************************)
PlainMessage == HookMessage(FALSE, FALSE, FALSE, FALSE, FALSE)
ErrorMessage == HookMessage(FALSE, TRUE, FALSE, FALSE, FALSE)
BusyMessage == HookMessage(TRUE, TRUE, TRUE, TRUE, TRUE)

HookMessageLists ==
    {<<>>, <<PlainMessage>>,
     <<BusyMessage, BusyMessage, BusyMessage>>,
     <<BusyMessage, BusyMessage, BusyMessage, ErrorMessage>>}

HookInputs ==
    LET kinds == {<<"response", FALSE>>, <<"response", TRUE>>,
                  <<"tool", FALSE>>, <<"other", FALSE>>}
    IN  {HookData(k[1], k[2], FALSE, <<>>) : k \in kinds}
        \cup {HookData(k[1], k[2], TRUE, m) : k \in kinds, m \in HookMessageLists}

Analyses == {"analysis", "empty", "failed"}

InitHook ==
    /\ SSEIdle
    /\ SvcIdle
    /\ ToolIdle
    /\ AddonIdle
    /\ HookIdle

\* the hook runs for one event: main reads the input, update_session_stats
\* reads the session file, updates it and writes it back (line 194); the
\* analysis has a result other than "failed" only when it is asked for
HookRuns(data, analysis) ==
    /\ session_data.stats.messages < MaxCount
    /\ session_data.stats.tools < MaxCount
    /\ analysis # "failed"
          => update_session_stats(session_data.stats, data, analysis).called
    /\ LET out == update_session_stats(session_data.stats, data, analysis)
       IN  /\ session_data' = [present |-> TRUE, stats |-> out.stats]
           /\ hook_event' = [type |-> data.type,
                             messages_key |-> data.has_messages,
                             triggered |-> out.triggered,
                             called |-> out.called, reset |-> out.reset]
    /\ UNCHANGED <<sseVars, svcVars, flowVars, addonVars, toolVars>>

NextHook ==
    \E data \in HookInputs, analysis \in Analyses : HookRuns(data, analysis)

SpecHook == InitHook /\ [][NextHook]_vars


(***************************************************************************)
(* Spec: two concurrent flows, each carrying one of a few exchanges; a     *)
(* finished flow is replaced by a new one.                                 *)
(***************************************************************************)
Sonnet == "claude-sonnet-4"
Haiku == "claude-3-5-haiku-20241022"
TextA == <<"a">>
TextU == <<"u">>
TextV == <<"v">>
TextX == <<"x">>

ReqU == RequestBody(RequestDict(TRUE, Sonnet, TRUE, <<StrMsg("user", TextU)>>))
ReqE == RequestBody(RequestDict(TRUE, Sonnet, TRUE, <<StrMsg("user", EmptyText)>>))
ReqV == RequestBody(RequestDict(TRUE, Sonnet, TRUE, <<StrMsg("user", TextV)>>))

JsonA == JsonBody("dict", ResponseDict(TRUE, Sonnet, TRUE, "r1", TRUE, <<TextBlock(TextA)>>))
JsonNone == JsonBody("dict", ResponseDict(TRUE, Sonnet, TRUE, "r2", TRUE, <<>>))
JsonHaiku == JsonBody("dict", ResponseDict(TRUE, Haiku, TRUE, "r3", TRUE, <<TextBlock(TextA)>>))
JsonBad == JsonBody("bad", EmptyDict)
StreamA == StreamBody(<<MsgStart(Sonnet, "r1"), BlockStart("text"),
                        Delta("text_delta", TextA), BlockStop>>)
StreamPartial == StreamBody(<<MsgStart(Sonnet, "r1"), BlockStart("text"),
                              Delta("text_delta", TextA)>>)
StreamBroken == StreamBody(<<MsgStart(Sonnet, "r1"), BlockStart("text"),
                             NonObject, BlockStop>>)
ReqNonDict == RequestBody(RequestNonDict)
ReqToolList == RequestBody(RequestDict(TRUE, Sonnet, TRUE,
                              <<ListMsg("user", <<ReqToolResultList>>)>>))

Exchange(target, request, response) ==
    [target |-> target, request |-> request, response |-> response]

Exchanges ==
    {Exchange("messages", ReqU, JsonA),
     Exchange("messages", ReqU, JsonNone),
     Exchange("messages", ReqU, StreamA),
     Exchange("messages", ReqU, StreamPartial),
     Exchange("messages", ReqU, JsonHaiku),
     Exchange("messages", ReqU, JsonBad),
     Exchange("messages", ReqU, StreamBroken),
     Exchange("messages", ReqNonDict, JsonA),
     Exchange("messages", ReqToolList, JsonA),
     Exchange("messages", ReqToolList, JsonHaiku),
     Exchange("messages", ReqE, JsonNone),
     Exchange("messages", BadRequestBody, JsonA),
     Exchange("other_host", ReqU, JsonA),
     Exchange("other_path", ReqU, JsonA)}

Flows == {"f1", "f2"}

AddonStart ==
    /\ message_count = 0
    /\ recent_messages = <<>>
    /\ pending = <<>>
    /\ store = <<>>
    /\ reflections = <<>>
    /\ tasks = <<>>
    /\ add_calls = 0
    /\ last = NoStep

Init ==
    /\ SSEIdle
    /\ SvcIdle
    /\ HookIdle
    /\ ToolIdle
    /\ \E x \in [Flows -> Exchanges] :
          /\ flow_target = [f \in Flows |-> x[f].target]
          /\ request_body = [f \in Flows |-> x[f].request]
          /\ response_body = [f \in Flows |-> x[f].response]
    /\ flow_pc = [f \in Flows |-> "new"]
    /\ claude_request = [f \in Flows |-> NoRequest]
    /\ processed_conv_id = [f \in Flows |-> NoConv]
    /\ AddonStart

\* the host is done with flow f and a new flow object takes its place
NewFlow(f, x) ==
    /\ flow_pc[f] = "responded"
    /\ \A i \in 1..Len(pending) : pending[i].flow # f
    /\ flow_pc' = [flow_pc EXCEPT ![f] = "new"]
    /\ flow_target' = [flow_target EXCEPT ![f] = x.target]
    /\ request_body' = [request_body EXCEPT ![f] = x.request]
    /\ response_body' = [response_body EXCEPT ![f] = x.response]
    /\ claude_request' = [claude_request EXCEPT ![f] = NoRequest]
    /\ processed_conv_id' = [processed_conv_id EXCEPT ![f] = NoConv]
    /\ last' = Step("new_flow", f, "none", FALSE)
    /\ UNCHANGED <<message_count, recent_messages, pending, store, reflections,
                   tasks, add_calls, otherVars>>

\* what the remote store answers to the one call add_memory makes
AddScripts == {<<"ok">>, <<"connection">>}

Next ==
    \/ \E f \in Flows : Request(f)
    \/ \E f \in Flows : Response(f)
    \/ \E i \in 1..MaxAdds, script \in AddScripts : AddReturns(i, script)
    \/ \E f \in Flows, x \in Exchanges : NewFlow(f, x)

Spec == Init /\ [][Next]_vars

(***************************************************************************)
(* SpecPair: two concurrent flows whose requests carry different user      *)
(* texts, so that a turn shows which flow's request it was built from.     *)
(***************************************************************************)
JsonB == JsonBody("dict", ResponseDict(TRUE, Sonnet, TRUE, "r5", TRUE, <<TextBlock(TextX)>>))

PairExchanges ==
    {Exchange("messages", ReqU, JsonA),
     Exchange("messages", ReqV, JsonB),
     Exchange("messages", ReqE, JsonA),
     Exchange("messages", BadRequestBody, JsonB)}

InitPair ==
    /\ SSEIdle
    /\ SvcIdle
    /\ HookIdle
    /\ ToolIdle
    /\ \E x \in [Flows -> PairExchanges] :
          /\ flow_target = [f \in Flows |-> x[f].target]
          /\ request_body = [f \in Flows |-> x[f].request]
          /\ response_body = [f \in Flows |-> x[f].response]
    /\ flow_pc = [f \in Flows |-> "new"]
    /\ claude_request = [f \in Flows |-> NoRequest]
    /\ processed_conv_id = [f \in Flows |-> NoConv]
    /\ AddonStart

NextPair ==
    \/ \E f \in Flows : Request(f)
    \/ \E f \in Flows : Response(f)
    \/ \E i \in 1..Len(pending), script \in AddScripts : AddReturns(i, script)
    \/ \E f \in Flows, x \in PairExchanges : NewFlow(f, x)

SpecPair == InitPair /\ [][NextPair]_vars


(***************************************************************************)
(* SpecReflect: one flow at a time carrying turns of one or two messages,  *)
(* long enough for the threshold to be reached twice, together with the    *)
(* background units the dispatches create.                                 *)
(***************************************************************************)
JsonBlank == JsonBody("dict", ResponseDict(TRUE, Sonnet, TRUE, "r4", TRUE,
                          <<TextBlock(EmptyText), TextBlock(EmptyText)>>))

ReflectExchanges ==
    {Exchange("messages", ReqU, JsonA),
     Exchange("messages", ReqE, JsonA),
     Exchange("messages", ReqE, JsonBlank)}

ReflectFlows == {"f1"}

InitReflect ==
    /\ SSEIdle
    /\ SvcIdle
    /\ HookIdle
    /\ ToolIdle
    /\ \E x \in [ReflectFlows -> ReflectExchanges] :
          /\ flow_target = [f \in ReflectFlows |-> x[f].target]
          /\ request_body = [f \in ReflectFlows |-> x[f].request]
          /\ response_body = [f \in ReflectFlows |-> x[f].response]
    /\ flow_pc = [f \in ReflectFlows |-> "new"]
    /\ claude_request = [f \in ReflectFlows |-> NoRequest]
    /\ processed_conv_id = [f \in ReflectFlows |-> NoConv]
    /\ AddonStart

NextReflect ==
    \/ \E f \in ReflectFlows : Request(f)
    \/ \E f \in ReflectFlows : ResponseUpTo(f, MaxTurns)
    \/ \E i \in 1..Len(pending), script \in AddScripts : AddReturns(i, script)
    \/ \E f \in ReflectFlows, x \in ReflectExchanges : NewFlow(f, x)
    \/ \E i \in 1..Len(tasks) : TaskStart(i)
    \/ \E i \in 1..Len(tasks), script \in AddScripts : SearchReturns(i, script)
    \/ \E i \in 1..Len(tasks), returned \in BOOLEAN : ReflectReturns(i, returned)

SpecReflect == InitReflect /\ [][NextReflect]_vars

(***************************************************************************)
(* SpecDispatch: the turns of SpecReflect, with asyncio.create_task either *)
(* returning or raising inside the try block of lines 340-353.  The units  *)
(* created are left unscheduled.                                           *)
(***************************************************************************)
\* variant of SchedulerUpdateOn: the reset of the counter is made inside the
\* try block, after create_task
SchedulerUpdateRetries(window, count, messages, created) ==
    LET w == DequeExtend(window, messages)
        c == count + Len(messages)
    IN  IF ThresholdReached(c)
        THEN [window |-> w, count |-> IF created THEN 0 ELSE c,
              dispatched |-> created]
        ELSE [window |-> w, count |-> c, dispatched |-> FALSE]

\* the scheduler update at lines 334-355 when create_task returns (created)
\* or raises into the `except Exception` of line 352; line 355 follows the
\* try statement
SchedulerUpdateOn(window, count, messages, created) ==
    LET w == DequeExtend(window, messages)
        c == count + Len(messages)
    IN  IF ThresholdReached(c)
        THEN [window |-> w, count |-> 0, dispatched |-> created]
        ELSE [window |-> w, count |-> c, dispatched |-> FALSE]

\* MemoryAddon.response from the await on (src/memory_addon.py:300-364):
\* add_memory returns or raises for the i-th suspended hook, and
\* create_task, when it is called, returns or raises
AddReturnsCreating(i, script, created) ==
    /\ i \in 1..Len(pending)
    /\ LET call == pending[i]
           result == ServiceCall(script)
           upd == SchedulerUpdateOn(recent_messages, message_count,
                                    call.messages, created)
           attempted == ThresholdReached(message_count + Len(call.messages))
       IN  /\ pending' = RemoveAt(pending, i)
           /\ IF result.returned
              THEN /\ store' = Append(store, [conv |-> call.conv,
                                               messages |-> call.messages])
                   /\ recent_messages' = upd.window
                   /\ message_count' = upd.count
                   /\ reflections' = IF upd.dispatched
                                     THEN Append(reflections, upd.window)
                                     ELSE reflections
                   /\ tasks' = IF upd.dispatched
                               THEN Append(tasks, create_task(upd.window))
                               ELSE tasks
                   /\ last' = Step("add_return", call.flow,
                                   IF attempted /\ ~created
                                   THEN "dispatch_failed" ELSE "stored", FALSE)
              ELSE /\ last' = Step("add_return", call.flow, "add_raised", FALSE)
                   /\ UNCHANGED <<store, recent_messages, message_count, reflections,
                                  tasks>>
    /\ UNCHANGED <<flowVars, add_calls, otherVars>>

NextDispatch ==
    \/ \E f \in ReflectFlows : Request(f)
    \/ \E f \in ReflectFlows : ResponseUpTo(f, MaxTurns)
    \/ \E i \in 1..Len(pending), script \in AddScripts, created \in BOOLEAN :
          AddReturnsCreating(i, script, created)
    \/ \E f \in ReflectFlows, x \in ReflectExchanges : NewFlow(f, x)

SpecDispatch == InitReflect /\ [][NextDispatch]_vars


(***************************************************************************)
(* SpecTurn: one flow to /v1/messages, its request and response drawn from *)
(* a wide domain; the host may call the response hook again on the same    *)
(* payloads.                                                               *)
(***************************************************************************)
TextT == <<"t">>

TurnMessageLists ==
    {<<>>,
     <<StrMsg("user", TextU)>>,
     <<StrMsg("user", EmptyText)>>,
     <<StrMsg("assistant", TextX)>>,
     <<ListMsg("user", <<ReqTextBlock(TextU), ReqToolResult(TextT)>>)>>,
     <<ListMsg("user", <<ReqImageBlock>>)>>,
     <<ListMsg("user", <<ReqToolResultList>>)>>,
     <<StrMsg("user", TextV), StrMsg("assistant", TextX)>>,
     <<StrMsg("user", TextV), StrMsg("assistant", TextX), StrMsg("user", TextU)>>,
     <<StrMsg("user", TextV), StrMsg("user", EmptyText)>>}

TurnRequests ==
    {BadRequestBody, RequestBody(RequestNonDict),
     RequestBody(RequestDict(TRUE, Sonnet, FALSE, <<>>)),
     RequestBody(RequestDict(FALSE, "", TRUE, <<StrMsg("user", TextU)>>))}
    \cup {RequestBody(RequestDict(TRUE, Sonnet, TRUE, m)) : m \in TurnMessageLists}

TurnBlocks == {TextBlock(TextA), TextBlock(EmptyText), ToolUseBlock}

TurnDocuments ==
    {JsonBody("bad", EmptyDict), JsonBody("falsy", EmptyDict),
     JsonBody("nondict", EmptyDict), JsonBody("dict", EmptyDict),
     JsonBody("dict", ResponseDict(FALSE, "", FALSE, "", FALSE, <<>>)),
     JsonBody("dict", ResponseDict(TRUE, Haiku, TRUE, "r1", TRUE, <<TextBlock(TextA)>>))}
    \cup {JsonBody("dict", ResponseDict(TRUE, Sonnet, TRUE, "r1", TRUE, c)) :
             c \in SeqsUpTo(TurnBlocks, 2)}

TurnEvents ==
    {BlockStart("text"), BlockStart("tool_use"), Delta("text_delta", TextA), BlockStop}

TurnStreams ==
    LET tails == SeqsUpTo(TurnEvents, MaxEvents)
    IN  {StreamBody(t) : t \in tails}
        \cup {StreamBody(<<MsgStart(Sonnet, "r1")>> \o t) : t \in tails}
        \cup {StreamBody(<<MsgStart(Haiku, "r1"), BlockStart("text"),
                           Delta("text_delta", TextA), BlockStop>>),
              StreamBody(<<BlockStart("text"), Delta("text_delta", TextA),
                           NonObject, BlockStop>>)}

TurnFlows == {"f1"}

InitTurn ==
    /\ SSEIdle
    /\ SvcIdle
    /\ HookIdle
    /\ ToolIdle
    /\ flow_target = [f \in TurnFlows |-> "messages"]
    /\ request_body \in [TurnFlows -> TurnRequests]
    /\ response_body \in [TurnFlows -> TurnDocuments \cup TurnStreams]
    /\ flow_pc = [f \in TurnFlows |-> "new"]
    /\ claude_request = [f \in TurnFlows |-> NoRequest]
    /\ processed_conv_id = [f \in TurnFlows |-> NoConv]
    /\ AddonStart

NextTurn ==
    \/ \E f \in TurnFlows : Request(f)
    \/ \E f \in TurnFlows : Response(f)
    \/ \E i \in 1..MaxAdds, script \in AddScripts : AddReturns(i, script)

SpecTurn == InitTurn /\ [][NextTurn]_vars


(***************************************************************************)
(* SpecStream: one streamed exchange whose body the host first holds in    *)
(* part and later in full; the response hook may be invoked on either.     *)
(***************************************************************************)
\* the events after message_start of a whole response: every block is
\* started and stopped, and text deltas arrive inside text blocks only
RECURSIVE WholeBlocks(_, _)
WholeBlocks(lines, open) ==
    IF lines = <<>> THEN open = "None"
    ELSE LET line == Head(lines)
         IN  CASE line.kind = "content_block_start" ->
                    open = "None" /\ WholeBlocks(Tail(lines), line.btype)
               [] line.kind = "content_block_stop" ->
                    open # "None" /\ WholeBlocks(Tail(lines), "None")
               [] OTHER -> open = "text" /\ WholeBlocks(Tail(lines), open)

CompleteStreams ==
    {<<MsgStart(Sonnet, "r1")>> \o t :
        t \in {u \in SeqsUpTo(TurnEvents, MaxEvents) :
                  u # <<>> /\ WholeBlocks(u, "None")}}

\* the proper prefixes of a stream in which no text block is complete yet
PartialStreams(c) ==
    {SubSeq(c, 1, n) : n \in {m \in 0..(Len(c) - 1) :
        parse_sse_response(SubSeq(c, 1, m)).content = <<>>}}

IsProperPrefix(p, c) == Len(p) < Len(c) /\ p = SubSeq(c, 1, Len(p))

StreamFlows == {"f1"}
StreamRequests == {ReqU, ReqE}

InitStream ==
    /\ SSEIdle
    /\ SvcIdle
    /\ HookIdle
    /\ ToolIdle
    /\ flow_target = [f \in StreamFlows |-> "messages"]
    /\ request_body \in [StreamFlows -> StreamRequests]
    /\ \E c \in CompleteStreams : \E p \in PartialStreams(c) :
          response_body = [f \in StreamFlows |-> StreamBody(p)]
    /\ flow_pc = [f \in StreamFlows |-> "new"]
    /\ claude_request = [f \in StreamFlows |-> NoRequest]
    /\ processed_conv_id = [f \in StreamFlows |-> NoConv]
    /\ AddonStart

\* the rest of the stream has arrived after a part without a completed text
\* block: flow.response.content is now whole
StreamCompletes(f, c) ==
    /\ flow_pc[f] = "responded"
    /\ parse_sse_response(response_body[f].lines).content = <<>>
    /\ IsProperPrefix(response_body[f].lines, c)
    /\ response_body' = [response_body EXCEPT ![f] = StreamBody(c)]
    /\ last' = Step("stream_completes", f, "none", FALSE)
    /\ UNCHANGED <<flow_pc, flow_target, request_body, claude_request,
                   processed_conv_id, message_count, recent_messages, pending,
                   store, reflections, tasks, add_calls, otherVars>>

NextStream ==
    \/ \E f \in StreamFlows : Request(f)
    \/ \E f \in StreamFlows : Response(f)
    \/ \E i \in 1..Len(pending), script \in AddScripts : AddReturns(i, script)
    \/ \E f \in StreamFlows, c \in CompleteStreams : StreamCompletes(f, c)

SpecStream == InitStream /\ [][NextStream]_vars


(***************************************************************************)
(* Stream reconstruction                                                   *)
(***************************************************************************)
IsBoundary(line) == line.kind \in {"content_block_start", "content_block_stop"}

\* the position of the last block boundary before position j (0 if none)
RECURSIVE LastBoundaryBefore(_, _)
LastBoundaryBefore(lines, j) ==
    IF j <= 1 THEN 0
    ELSE IF IsBoundary(lines[j - 1]) THEN j - 1
    ELSE LastBoundaryBefore(lines, j - 1)

\* the text of the text_delta events at positions i+1 .. j-1, in arrival order
RECURSIVE DeltaTextBetween(_, _, _)
DeltaTextBetween(lines, i, j) ==
    IF i + 1 >= j THEN EmptyText
    ELSE (IF lines[i + 1].kind = "content_block_delta" /\ lines[i + 1].dtype = "text_delta"
          THEN lines[i + 1].text ELSE EmptyText)
         \o DeltaTextBetween(lines, i + 1, j)

\* position j is a content_block_stop that closes a text block opened at the
\* last boundary before it
ClosesTextBlock(lines, j) ==
    /\ lines[j].kind = "content_block_stop"
    /\ LET i == LastBoundaryBefore(lines, j)
       IN  /\ i > 0
           /\ lines[i].kind = "content_block_start"
           /\ lines[i].btype = "text"

\* one entry per closed text block among the first n lines, in order
RECURSIVE ClosedTextBlocks(_, _)
ClosedTextBlocks(lines, n) ==
    IF n = 0 THEN <<>>
    ELSE ClosedTextBlocks(lines, n - 1)
         \o (IF ClosesTextBlock(lines, n)
             THEN <<TextBlock(DeltaTextBetween(lines, LastBoundaryBefore(lines, n), n))>>
             ELSE <<>>)

AllObjects(lines) == \A k \in 1..Len(lines) : lines[k].kind # "nonobject"

ServiceDone == svc_pc \in {"returned", "raised"}

\* C2: when the remote add call fails exactly twice and then succeeds,
\* add_memory returns the successful result and the remote call was invoked
\* exactly 3 times.
C2_RetryToSuccess ==
    (/\ ServiceDone
     /\ svc_op = "add_memory"
     /\ Len(svc_script) = 3
     /\ svc_script[1] \in RemoteFailures
     /\ svc_script[2] \in RemoteFailures
     /\ svc_script[3] = "ok")
        => (svc_pc = "returned" /\ svc_calls = 3)

\* C3: when the remote add call fails on every attempt, add_memory invokes it
\* exactly 3 times and then raises a classified persistence error.
C3_RetryExhaustion ==
    (/\ ServiceDone
     /\ svc_op = "add_memory"
     /\ Len(svc_script) >= 3
     /\ \A k \in 1..Len(svc_script) : svc_script[k] \in RemoteFailures)
        => (svc_pc = "raised" /\ svc_calls = 3 /\ svc_error.classified)

(***************************************************************************)
(* Capture                                                                 *)
(***************************************************************************)
\* C1: with the same request and response payloads on a flow, at most one
\* turn is persisted however often the response hook is invoked, and every
\* invocation after the first leaves the window, the counter, the store, the
\* suspended add calls and the processed marker as they were.
C1_IdempotentCapture ==
    /\ [](Len(store) <= 1)
    /\ [][(last'.hook = "response" /\ last'.repeat)
            => UNCHANGED <<recent_messages, message_count, store, pending,
                           add_calls, reflections, processed_conv_id>>]_vars

\* C1 witness: a second invocation found the marker after the turn was stored
C1_Witness ==
    /\ last.hook = "response"
    /\ last.repeat
    /\ last.outcome = "already_processed"
    /\ Len(store) = 1

RECURSIVE PersistedMessages(_, _)
PersistedMessages(turns, n) ==
    IF n = 0 THEN 0 ELSE PersistedMessages(turns, n - 1) + Len(turns[n].messages)

\* C4: once the persisted turns' message counts sum to exactly the threshold,
\* exactly one reflection has been dispatched and the counter is 0; while they
\* sum to one less than the threshold, none has been dispatched.
C4_ReflectionTrigger ==
    LET total == PersistedMessages(store, Len(store))
    IN  /\ total = REFLECTION_MESSAGE_THRESHOLD
            => (Len(reflections) = 1 /\ message_count = 0)
        /\ total = REFLECTION_MESSAGE_THRESHOLD - 1
            => (Len(reflections) = 0 /\ message_count = total)

\* C4 witness: turns of 2, 2 and 1 messages were persisted and one dispatch made
C4_Witness ==
    /\ PersistedMessages(store, Len(store)) = REFLECTION_MESSAGE_THRESHOLD
    /\ Len(store) = 3
    /\ Len(reflections) = 1

C6_StreamingEquivalence ==
    \A f \in DOMAIN flow_pc :
        (response_body[f].streaming /\ claude_request[f].present)
        => LET response_data == parse_sse_response(response_body[f].lines)
               streamed == HookPrefix(claude_request[f].data, NoConv, response_body[f])
               single == HookPrefix(claude_request[f].data, NoConv,
                                    JsonBody("dict", response_data))
           IN  ~response_data.empty
               => /\ (streamed.outcome = "add") = (single.outcome = "add")
                  /\ streamed.messages = single.messages

HasRole(messages, role) == \E k \in 1..Len(messages) : messages[k].role = role

AddCallsMade == {pending[k] : k \in 1..Len(pending)} \cup {store[k] : k \in 1..Len(store)}

\* C8: every turn handed to the store contains both a user message and an
\* assistant message (a turn with an empty side is discarded).
C8_TurnDiscard ==
    \A call \in AddCallsMade :
        HasRole(call.messages, "user") /\ HasRole(call.messages, "assistant")

\* the response_data the hook works on for a body, when it gets one
BodyData(body) ==
    IF body.streaming THEN parse_sse_response(body.lines)
    ELSE IF body.json = "dict" THEN body.data ELSE EmptyDict

\* C8 amended: when the extracted user text and the extracted assistant text
\* are both empty the hook calls add for nothing and leaves window and counter
\* alone; every turn handed to the store has at least one message and no
\* message with empty content.
C8_TurnDiscardWhenBothEmpty ==
    /\ \A call \in AddCallsMade :
          /\ call.messages # <<>>
          /\ \A k \in 1..Len(call.messages) : call.messages[k].content # EmptyText
    /\ \A f \in DOMAIN flow_pc :
          (/\ claude_request[f].present
           /\ claude_request[f].data.isDict
           /\ UserMessages(claude_request[f].data).messages = <<>>
           /\ AssistantMessages(BodyData(response_body[f])) = <<>>)
          => /\ add_calls = 0
             /\ recent_messages = <<>>
             /\ message_count = 0

\* C8 witness: the hook built a turn from two empty sides and stored nothing
C8_Witness ==
    /\ last.hook = "response"
    /\ last.outcome = "no_messages"
    /\ add_calls = 0

HasNonEmptyText(response_data) ==
    \E k \in 1..Len(response_data.content) :
        /\ response_data.content[k].type = "text"
        /\ response_data.content[k].text # EmptyText

\* C9: a streamed response goes on to turn building exactly when its
\* reconstructed content has at least one non-empty text block; when it has
\* none, nothing is persisted and the flow is not marked processed.
C9_CompletionContract ==
    \A f \in DOMAIN flow_pc :
        (/\ last.hook = "response"
         /\ last.flow = f
         /\ last.outcome \notin {"uncorrelated", "out_of_scope"}
         /\ response_body[f].streaming)
        => LET usable == HasNonEmptyText(parse_sse_response(response_body[f].lines))
           IN  /\ usable <=> last.outcome # "incomplete"
               /\ ~usable => (processed_conv_id[f] = NoConv /\ add_calls = 0)

\* some content block was started and not stopped
Unfinished(lines) ==
    LET b == LastBoundaryBefore(lines, Len(lines) + 1)
    IN  b > 0 /\ lines[b].kind = "content_block_start"

\* C10: no turn is persisted from a stream in which a content block was
\* started and not yet stopped.
C10_NoPartialOutput ==
    \A f \in DOMAIN flow_pc :
        (response_body[f].streaming /\ Unfinished(response_body[f].lines))
        => add_calls = 0

\* C11: a failure raised by a service operation is a classified error whose
\* class is determined by the failure message (timeout, then connection,
\* then validation, else generic) and which carries the original exception.
C11_ExceptionClassification ==
    svc_pc = "raised"
        => /\ svc_error.classified
           /\ svc_error.kind = svc_script[svc_calls]

(***************************************************************************)
(* Malformed event lines                                                   *)
(***************************************************************************)
\* a data line whose payload is not JSON, or is JSON but not an object
Malformed(line) == line.kind \in {"badjson", "nonobject"}

\* what the hook reads of a parse result: content, model and id
Reconstructed(response_data) ==
    <<response_data.content, response_data.model, response_data.id>>

\* C12: a malformed data line at any position of a stream leaves the
\* reconstructed content, model and id equal to those of the stream without
\* that line.
C12_BadLineSkipped ==
    sse_result.parsed =>
        \A k \in 1..Len(sse_content) :
            Malformed(sse_content[k]) =>
                Reconstructed(sse_result.data)
                    = Reconstructed(parse_sse_response(RemoveAt(sse_content, k)))

(***************************************************************************)
(* Background reflection                                                   *)
(***************************************************************************)
\* C13: the step of the response hook that reaches the threshold hands the
\* snapshot to a new background unit and returns to the host in that same
\* step, before the unit has run at all; the hook never waits for a unit.
C13_NonBlockingDispatch ==
    [][Len(reflections') > Len(reflections)
          => /\ last'.hook = "add_return"
             /\ last'.outcome = "stored"
             /\ Len(pending') = Len(pending) - 1
             /\ Len(tasks') = Len(tasks) + 1
             /\ tasks'[Len(tasks')].pc = "scheduled"]_vars

\* C13 witness: the threshold was reached a second time and its hook returned
\* while the first unit has still not run
C13_Witness ==
    /\ Len(tasks) = 2
    /\ tasks[1].pc = "scheduled"
    /\ pending = <<>>
    /\ last.hook = "add_return"

\* the scheduler state the persisted turns alone determine:
\* [window, count, dispatches]
RECURSIVE Replay(_, _)
Replay(turns, n) ==
    IF n = 0 THEN [window |-> <<>>, count |-> 0, dispatches |-> 0]
    ELSE LET before == Replay(turns, n - 1)
             upd == SchedulerUpdate(before.window, before.count, turns[n].messages)
         IN  [window |-> upd.window, count |-> upd.count,
              dispatches |-> before.dispatches + (IF upd.dispatched THEN 1 ELSE 0)]

\* C14: no background unit ever ends with an exception raised out of it; a
\* step of a unit, failing or not, changes neither the counter nor the window
\* nor anything else of the capture path; and the counter, the window and the
\* number of reflections dispatched are those the persisted turns determine,
\* whatever the units did.
C14_BackgroundFailureIsolation ==
    /\ [](\A i \in 1..Len(tasks) : ~tasks[i].raised)
    /\ [](LET r == Replay(store, Len(store))
          IN  /\ recent_messages = r.window
              /\ message_count = r.count
              /\ Len(reflections) = r.dispatches)
    /\ [][last'.hook = "reflection"
            => UNCHANGED <<message_count, recent_messages, pending, store,
                           reflections, add_calls, flowVars>>]_vars

\* C14 witness: the first unit failed in its search and in the reflection
\* routine, and a later turn has just triggered the second reflection
C14_Witness ==
    /\ Len(tasks) = 2
    /\ tasks[1].pc = "done"
    /\ tasks[1].search = "failed"
    /\ tasks[1].reflect = "failed"
    /\ tasks[2].pc = "scheduled"
    /\ last.hook = "add_return"
    /\ last.outcome = "stored"

(***************************************************************************)
(* Window of recent messages                                               *)
(***************************************************************************)
\* the messages of turns i..n of `turns`, in capture order
RECURSIVE MessagesOf(_, _, _)
MessagesOf(turns, i, n) ==
    IF i > n THEN <<>>
    ELSE turns[i].messages \o MessagesOf(turns, i + 1, n)

\* the last k entries of a sequence (all of it when it is shorter)
LastOf(seq, k) ==
    IF Len(seq) <= k THEN seq ELSE SubSeq(seq, Len(seq) - k + 1, Len(seq))

\* C15 as stated: the window holds at most K entries and they are the K most
\* recently captured turns, in capture order.
C15_WindowOfRecentTurns ==
    LET n == Len(store)
        first == IF n <= RECENT_MESSAGES_LIMIT THEN 1
                 ELSE n - RECENT_MESSAGES_LIMIT + 1
    IN  recent_messages = MessagesOf(store, first, n)

\* C15 (amended): the window holds at most K entries, each of them one
\* message; they are the K most recently captured messages in capture order,
\* so the oldest message is the one evicted when capacity is exceeded.
C15_WindowOfRecentMessages ==
    /\ Len(recent_messages) <= RECENT_MESSAGES_LIMIT
    /\ recent_messages
         = LastOf(MessagesOf(store, 1, Len(store)), RECENT_MESSAGES_LIMIT)

\* C15 witness: seven messages were captured, so the two oldest were evicted
C15_Witness ==
    /\ Len(MessagesOf(store, 1, Len(store))) = RECENT_MESSAGES_LIMIT + 2
    /\ Len(recent_messages) = RECENT_MESSAGES_LIMIT
    /\ recent_messages # SubSeq(MessagesOf(store, 1, Len(store)), 1,
                                RECENT_MESSAGES_LIMIT)

\* the number of leading failures of a scripted sequence of remote outcomes
RECURSIVE LeadingFailures(_)
LeadingFailures(script) ==
    IF script = <<>> \/ Head(script) = "ok" THEN 0
    ELSE 1 + LeadingFailures(Tail(script))

\* C16: when the remote call of search_memories, get_all_memories or
\* delete_memory fails once or twice and then succeeds, the operation returns
\* the successful result and the remote call was invoked exactly (number of
\* failures + 1) times.
C16_SharedRetryWrapper ==
    (/\ ServiceDone
     /\ svc_op \in {"search_memories", "get_all_memories", "delete_memory"}
     /\ LeadingFailures(svc_script) \in {1, 2}
     /\ Len(svc_script) > LeadingFailures(svc_script))
        => (svc_pc = "returned" /\ svc_calls = LeadingFailures(svc_script) + 1)

(***************************************************************************)
(* Deduplication                                                           *)
(***************************************************************************)
\* C17: over any interleaving of flows, no two persisted turns belong to the
\* same exchange (same request model and same response id), also when the
\* exchange's response is observed on two different flows.
C17_PersistOncePerExchange ==
    \A i, j \in 1..Len(store) : i # j => store[i].conv # store[j].conv

(***************************************************************************)
(* Latest user message                                                     *)
(***************************************************************************)
\* the messages of a given role in a turn, in order
RECURSIVE OfRole(_, _)
OfRole(messages, role) ==
    IF messages = <<>> THEN <<>>
    ELSE (IF Head(messages).role = role THEN <<Head(messages)>> ELSE <<>>)
         \o OfRole(Tail(messages), role)

\* the positions of the request's entries with role "user"
UserEntries(request_data) ==
    {k \in 1..Len(request_data.messages) : request_data.messages[k].role = "user"}

\* the request reduced to its last user entry (no entry when it has none)
OnlyLastUserEntry(request_data) ==
    LET ks == UserEntries(request_data)
    IN  [request_data EXCEPT !.messages =
            IF ks = {} THEN <<>>
            ELSE <<request_data.messages[CHOOSE k \in ks : \A j \in ks : j <= k]>>]

\* C18: the user message of every turn handed to the store is the one the
\* last entry with role "user" of the request gives by itself; earlier user
\* entries and the assistant entries of the request contribute nothing.
C18_LatestUserMessageOnly ==
    \A f \in DOMAIN flow_pc :
        \A call \in AddCallsMade :
            (claude_request[f].present /\ claude_request[f].data.isDict)
            => OfRole(call.messages, "user")
                 = UserMessages(OnlyLastUserEntry(claude_request[f].data)).messages

\* C18 witness: the request lists user "v", assistant "x", user "u" and the
\* stored turn carries the user message "u"
C18_Witness ==
    \E f \in DOMAIN flow_pc :
        /\ claude_request[f].present
        /\ Len(claude_request[f].data.messages) = 3
        /\ Len(store) = 1
        /\ OfRole(store[1].messages, "user") = <<Message("user", TextU)>>

(***************************************************************************)
(* MCP tools and suggestions                                               *)
(***************************************************************************)
ToolDone == tool_pc \in {"returned", "raised"}

\* the wrapped call of the tool just run failed (suggest_next_steps, which
\* suggest_next_actions wraps, does not fail)
WrappedCallFailed ==
    tool_name # "suggest_next_actions" /\ ~tool_env.answer.returned

\* what a tool gives when the call it wraps fails: a RuntimeError carrying the
\* failure message of that call
RaisesRuntimeError ==
    /\ tool_pc = "raised"
    /\ tool_out.raised
    /\ tool_out.error[2] = tool_env.answer.error

\* the tool returned the result of the call it wraps as it is
ReturnsUnderlying ==
    /\ tool_pc = "returned"
    /\ ~tool_out.raised
    /\ IF tool_name = "suggest_next_actions"
       THEN tool_out.suggestions = suggest_next_steps(tool_env)
       ELSE tool_out.value = Underlying(tool_env.answer.value)

C20_SuggestNeverRaises ==
    (ToolDone /\ tool_name = "suggest_next_actions")
        => /\ tool_pc = "returned"
           /\ Len(tool_out.suggestions) <= 10
           /\ (~tool_env.analysis.returned \/ ~tool_env.issues.returned
                 \/ ~tool_env.projects.returned)
                => tool_out.suggestions = <<>>

\* C20 witness: more than ten suggestions were collected and ten were returned
C20_Witness ==
    /\ ToolDone
    /\ tool_name = "suggest_next_actions"
    /\ Len(CollectedSuggestions(tool_env)) > 10
    /\ Len(tool_out.suggestions) = 10


(***************************************************************************)
(* Repeated invocation of the response hook while a stream grows           *)
(***************************************************************************)
\* the assistant messages of the turns handed to add_memory so far
AssistantParts ==
    {OfRole(call.messages, "assistant") : call \in AddCallsMade}

\* C21: while the body of a flow holds no completed text block, the hook
\* persists nothing and leaves the flow unmarked; once the hook has run on
\* the whole stream, which carries text, exactly one turn has been handed
\* to the store, by the first such run, and its assistant message is the
\* whole text.
C21_RepeatedInvocationUntilComplete ==
    \A f \in DOMAIN flow_pc :
        response_body[f].streaming =>
            LET lines == response_body[f].lines
                data == parse_sse_response(lines)
            IN  /\ data.content = <<>>
                   => (add_calls = 0 /\ processed_conv_id[f] = NoConv)
                /\ (/\ last.hook = "response"
                    /\ last.flow = f
                    /\ last.repeat
                    /\ lines \in CompleteStreams
                    /\ HasNonEmptyText(data))
                   => /\ add_calls = 1
                      /\ AssistantParts \subseteq {AssistantMessages(data)}
                      /\ last.outcome = "add"
                         => AssistantParts = {AssistantMessages(data)}


(***************************************************************************)
(* Persistence before scheduling                                           *)
(***************************************************************************)
\* C22: the window, the message counter and the dispatched reflections
\* change only in the step in which add_memory has returned for a turn,
\* which is then in the store; when add_memory raises, that step leaves the
\* window and the counter as they were and dispatches no reflection.
C22_PersistenceGatesScheduler ==
    [][/\ (\/ recent_messages' # recent_messages
           \/ message_count' # message_count
           \/ reflections' # reflections)
          => /\ last'.hook = "add_return"
             /\ last'.outcome = "stored"
             /\ Len(store') = Len(store) + 1
       /\ (last'.hook = "add_return" /\ last'.outcome = "add_raised")
          => /\ recent_messages' = recent_messages
             /\ message_count' = message_count
             /\ reflections' = reflections
             /\ store' = store]_vars

\* add_memory has raised for a turn while the window already held messages
C22_Witness ==
    /\ last.hook = "add_return"
    /\ last.outcome = "add_raised"
    /\ recent_messages # <<>>
    /\ message_count > 0


(***************************************************************************)
(* The scheduler update under interleaved hooks                            *)
(***************************************************************************)
\* the number of messages in the first n of `turns`
RECURSIVE MessageTotal(_, _)
MessageTotal(turns, n) ==
    IF n = 0 THEN 0 ELSE MessageTotal(turns, n - 1) + Len(turns[n].messages)

\* C23: however the hooks of different flows interleave at the await on
\* add_memory, every state the hooks can observe has the window, the
\* counter and the number of dispatched reflections that updating them for
\* the persisted turns one after another, in the order of the store, gives:
\* the window is never ahead of the counter, and the counter is below the
\* threshold whenever a hook resumes.
C23_AtomicSchedulerUpdate ==
    LET r == Replay(store, Len(store))
        total == MessageTotal(store, Len(store))
    IN  /\ recent_messages = r.window
        /\ message_count = r.count
        /\ Len(reflections) = r.dispatches
        /\ message_count < REFLECTION_MESSAGE_THRESHOLD
        /\ Len(recent_messages) =
              (IF total < RECENT_MESSAGES_LIMIT THEN total ELSE RECENT_MESSAGES_LIMIT)
        /\ (Len(reflections) = 0) => (message_count = total)

\* a hook has just completed its update while the hook of another flow is
\* suspended in add_memory, after an earlier turn was persisted
C23_Witness ==
    /\ last.hook = "add_return"
    /\ last.outcome = "stored"
    /\ Len(store) >= 2
    /\ \E k \in 1..Len(pending) : pending[k].flow # last.flow


(***************************************************************************)
(* Orphan deltas                                                           *)
(***************************************************************************)
\* position k holds a text_delta while no text block is open: the last
\* block boundary before it is not a content_block_start of type text
IsOrphanDelta(lines, k) ==
    /\ lines[k].kind = "content_block_delta"
    /\ lines[k].dtype = "text_delta"
    /\ LET i == LastBoundaryBefore(lines, k)
       IN  ~(i > 0 /\ lines[i].kind = "content_block_start" /\ lines[i].btype = "text")

\* the first n lines without their orphan deltas
RECURSIVE WithoutOrphans(_, _)
WithoutOrphans(lines, n) ==
    IF n = 0 THEN <<>>
    ELSE WithoutOrphans(lines, n - 1)
         \o (IF IsOrphanDelta(lines, n) THEN <<>> ELSE <<lines[n]>>)

\* the text of the orphan deltas among the first n lines
RECURSIVE OrphanText(_, _)
OrphanText(lines, n) ==
    IF n = 0 THEN EmptyText
    ELSE OrphanText(lines, n - 1)
         \o (IF IsOrphanDelta(lines, n) THEN lines[n].text ELSE EmptyText)

\* the texts of the entries of a content list, concatenated
RECURSIVE ContentText(_)
ContentText(content) ==
    IF content = <<>> THEN EmptyText
    ELSE Head(content).text \o ContentText(Tail(content))

\* C24: the assembled content list is the one the same stream gives with its
\* orphan text_delta events taken out, and its entries hold no more text than
\* the deltas that are not orphans carry.
C24_OrphanDeltasIgnored ==
    sse_result.parsed
        => LET kept == WithoutOrphans(sse_content, Len(sse_content))
           IN  /\ sse_result.data.content = parse_sse_response(kept).content
               /\ Len(ContentText(sse_result.data.content))
                     <= Len(DeltaTextBetween(kept, 0, Len(kept) + 1))

\* C24 witness: a delta before any block, a delta in a tool_use block and a
\* delta after a stop were each followed by a text block that holds only its own
C24_Witness ==
    /\ sse_result.parsed
    /\ sse_content \in
          {<<Delta("text_delta", <<"a">>), BlockStart("text"),
             Delta("text_delta", <<"b">>), BlockStop>>,
           <<BlockStart("tool_use"), Delta("text_delta", <<"a">>), BlockStop,
             BlockStop>>,
           <<BlockStop, Delta("text_delta", <<"a">>), BlockStart("text"), BlockStop>>}
    /\ OrphanText(sse_content, Len(sse_content)) = <<"a">>
    /\ \A k \in 1..Len(sse_result.data.content) :
          \A c \in 1..Len(sse_result.data.content[k].text) :
              sse_result.data.content[k].text[c] # "a"


(***************************************************************************)
(* Events that cannot be correlated                                        *)
(***************************************************************************)
\* C25: a request hook on a body that does not parse leaves the flow without
\* a stored request; and a response hook on a flow without a stored request
\* hands nothing to the store and leaves the flow's processed marker, the
\* window and the counter as they were.
C25_UncorrelatedEventsAreNoOps ==
    [][/\ (last'.hook = "request" /\ ~request_body[last'.flow].parses)
          => /\ ~claude_request'[last'.flow].present
             /\ claude_request' = claude_request
       /\ (last'.hook = "response" /\ ~claude_request[last'.flow].present)
          => /\ last'.outcome \in {"uncorrelated", "out_of_scope"}
             /\ UNCHANGED <<processed_conv_id, recent_messages, message_count,
                            pending, store, reflections, add_calls>>]_vars

\* the response hook has run on an in-scope flow whose request body did not
\* parse, while the window already held a persisted turn
C25_Witness ==
    /\ last.hook = "response"
    /\ last.outcome = "uncorrelated"
    /\ InScopeHost(flow_target[last.flow])
    /\ InScopePath(flow_target[last.flow])
    /\ ~request_body[last.flow].parses
    /\ ~claude_request[last.flow].present
    /\ recent_messages # <<>>


(***************************************************************************)
(* Excluded models                                                         *)
(***************************************************************************)
\* the model identifier of the response is one of the excluded ones
HasExcludedModel(body) ==
    LET d == BodyData(body) IN d.hasModel /\ d.model \in HaikuModels

\* C26: when the response hook runs on a response of an excluded model, it
\* returns without building the turn (no failure of turn building is seen
\* and no turn is found empty), hands nothing to the store, and leaves the
\* window, the counter and the dispatched reflections as they were.
C26_ExclusionRule ==
    [][(/\ last'.hook = "response"
        /\ last'.outcome \notin {"uncorrelated", "out_of_scope"}
        /\ HasExcludedModel(response_body[last'.flow]))
       => /\ last'.outcome \notin {"add", "build_error", "no_messages"}
          /\ UNCHANGED <<pending, add_calls, store, recent_messages,
                         message_count, reflections>>]_vars

\* the hook has excluded a response whose request would fail in turn
\* building, while the window held a persisted turn of another flow
C26_Witness ==
    /\ last.hook = "response"
    /\ last.outcome = "excluded"
    /\ request_body[last.flow] = ReqToolList
    /\ HasExcludedModel(response_body[last.flow])
    /\ recent_messages # <<>>
    /\ message_count > 0


(***************************************************************************)
(* Order of the steps of a background unit                                 *)
(***************************************************************************)
\* reflect_on_messages has been invoked by the unit
ReflectInvoked(task) == task.pc \in {"reflecting", "done"}

\* C27: in every unit, reflect_on_messages is invoked only once the context
\* search is over (returned, raised, or not made because the snapshot gives
\* no query), with the snapshot taken at the dispatch; it is invoked when
\* the search ends, also when the search raised, and then with an empty
\* context; and a unit that has invoked it never invokes it again.
C27_OrderInsideUnit ==
    /\ [](\A i \in 1..Len(tasks) :
            /\ tasks[i].messages = reflections[i]
            /\ ReflectInvoked(tasks[i])
               => /\ tasks[i].search \in {"ok", "failed", "skipped"}
                  /\ tasks[i].search = "skipped" <=> QueryParts(tasks[i].messages) = <<>>
                  /\ tasks[i].search = "failed" => tasks[i].context = "empty"
            /\ tasks[i].reflect # "none" <=> tasks[i].pc = "done")
    /\ [][\A i \in 1..Len(tasks) :
            /\ tasks'[i].messages = tasks[i].messages
            /\ tasks[i].pc = "searching" /\ tasks'[i].pc # "searching"
               => ReflectInvoked(tasks'[i]) /\ tasks'[i].reflect = "none"
            /\ ReflectInvoked(tasks[i])
               => /\ tasks'[i].pc \in {tasks[i].pc, "done"}
                  /\ tasks'[i].context = tasks[i].context
            /\ tasks[i].pc = "done" => tasks'[i] = tasks[i]]_vars

\* a unit whose search raised has invoked reflect_on_messages with an empty
\* context and a full window, and a later unit is still searching
C27_Witness ==
    /\ Len(tasks) = 2
    /\ tasks[1].pc = "done"
    /\ tasks[1].search = "failed"
    /\ tasks[1].context = "empty"
    /\ tasks[1].reflect = "ok"
    /\ Len(tasks[1].messages) = RECENT_MESSAGES_LIMIT
    /\ tasks[2].pc = "searching"


(***************************************************************************)
(* Isolation of concurrent flows                                           *)
(***************************************************************************)
\* C28: whatever the order of the request and response events of the
\* flows, the request a flow has stored is the one observed on that flow,
\* and the user message of a turn handed to the store for a flow is the one
\* the request of that same flow gives.
C28_CrossFlowIsolation ==
    /\ \A f \in DOMAIN flow_pc :
          claude_request[f].present
             => /\ request_body[f].parses
                /\ claude_request[f].data = request_body[f].data
    /\ \A k \in 1..Len(pending) :
          LET f == pending[k].flow
          IN  OfRole(pending[k].messages, "user")
                 = UserMessages(request_body[f].data).messages

\* the hooks of two flows with different user texts are suspended in
\* add_memory together, each with the text of its own request
C28_Witness ==
    \E j, k \in 1..Len(pending) :
        /\ pending[j].flow # pending[k].flow
        /\ OfRole(pending[j].messages, "user") = <<Message("user", TextU)>>
        /\ OfRole(pending[k].messages, "user") = <<Message("user", TextV)>>
        /\ request_body[pending[j].flow] = ReqU
        /\ request_body[pending[k].flow] = ReqV


(***************************************************************************)
(* Lifetime of the stored request                                          *)
(***************************************************************************)
\* the exchange of flow f has been processed: its marker is set and no hook
\* of the flow is suspended in add_memory
ExchangeProcessed(f) ==
    /\ processed_conv_id[f] # NoConv
    /\ \A k \in 1..Len(pending) : pending[k].flow # f

\* C29: a flow whose exchange has been processed no longer holds the
\* request payload that the request hook stored for it.
C29_FlowContextLifetime ==
    \A f \in DOMAIN flow_pc :
        ExchangeProcessed(f) => ~claude_request[f].present


(***************************************************************************)
(* The deduplication key                                                   *)
(***************************************************************************)
\* the model identifier of the request and the id of the response that
\* flow f carries, "unknown" standing for an absent one
PayloadKey(f) ==
    LET response_data == BodyData(response_body[f])
    IN  <<IF request_body[f].data.hasModel
          THEN request_body[f].data.model ELSE "unknown",
          IF response_data.hasId THEN response_data.id ELSE "unknown">>

\* C30: the key a flow is marked with, and the key of a turn handed to the
\* store, is the pair of the request's model identifier and the response's
\* id; so two flows carrying the same payloads are marked with the same key,
\* whenever and in whatever order their hooks ran.
C30_StableDedupKey ==
    /\ \A f \in DOMAIN flow_pc :
          processed_conv_id[f] # NoConv => processed_conv_id[f] = PayloadKey(f)
    /\ \A k \in 1..Len(pending) : pending[k].conv = PayloadKey(pending[k].flow)
    /\ \A f, g \in DOMAIN flow_pc :
          (/\ processed_conv_id[f] # NoConv
           /\ processed_conv_id[g] # NoConv
           /\ request_body[f] = request_body[g]
           /\ response_body[f] = response_body[g])
          => processed_conv_id[f] = processed_conv_id[g]

\* two flows with the same payloads were processed at different times (the
\* turn of one is stored, the hook of the other is still suspended, after a
\* third exchange was persisted) and carry the same key
C30_Witness ==
    /\ processed_conv_id["f1"] # NoConv
    /\ processed_conv_id["f1"] = processed_conv_id["f2"]
    /\ request_body["f1"] = request_body["f2"]
    /\ response_body["f1"] = response_body["f2"]
    /\ Len(store) = 2
    /\ Len(pending) = 1


(***************************************************************************)
(* ReflectionAgent: the fallback of reflect_on_messages                    *)
(***************************************************************************)
AgentDone == tool_pc \in {"returned", "raised"}

EnhancedFailed(env) == env.enhanced \in {"query_raises", "store_raises"}

\* C31: reflect_on_messages returns the result of the enhanced reflection
\* when that succeeds; when it fails, the outcome is that of
\* analyze_recent_conversations run with limit = len(messages), returned as
\* it is; and reflect_on_messages raises only when the enhanced reflection
\* and the fallback (its get_all_memories or its add_memory) have both failed.
C31_ReflectionFallback ==
    (AgentDone /\ tool_name = "reflect_on_messages")
    => /\ ~EnhancedFailed(tool_env)
          => /\ ~tool_out.raised
             /\ tool_out.path = "enhanced"
             /\ tool_out.status = tool_env.enhanced
       /\ EnhancedFailed(tool_env)
          => LET analysis == analyze_recent_conversations(
                                [tool_env EXCEPT !.limit = tool_env.n_messages])
             IN  /\ tool_out.path = "fallback"
                 /\ tool_out.limit = tool_env.n_messages
                 /\ tool_out = [analysis EXCEPT !.path = "fallback"]
                 /\ tool_out.raised <=> tool_pc = "raised"
                 /\ tool_out.raised
                    => (~tool_env.all.returned \/ ~tool_env.store_returns)
                 /\ (tool_env.all.returned /\ tool_env.store_returns)
                    => tool_out.status \in {"analyzed", "no_memories"}

\* the enhanced reflection raised and the fallback analysed memories within
\* a limit of three messages and stored its insights
C31_Witness ==
    /\ AgentDone
    /\ tool_name = "reflect_on_messages"
    /\ tool_env.enhanced = "query_raises"
    /\ tool_env.n_messages = 3
    /\ tool_pc = "returned"
    /\ tool_out.status = "analyzed"
    /\ tool_out.limit = 3
    /\ tool_out.stored
    /\ Len(tool_out.combined) = 3


(***************************************************************************)
(* ReflectionAgent: the limit of the analysis                              *)
(***************************************************************************)
\* C32: when analyze_recent_conversations returns an analysis, the memories
\* it analysed are at most `limit` (so is the memory_count it reports, their
\* number), and no id occurs twice among them; when get_all_memories
\* returns no memory, the result is no_memories, with no insight and no
\* reflection stored.
C32_AnalysisRespectsLimit ==
    (AgentDone /\ tool_name = "analyze_recent_conversations")
    => /\ tool_out.status = "analyzed"
          => /\ Len(tool_out.combined) <= tool_env.limit
             /\ tool_out.recent_count + tool_out.relevant_count <= tool_env.limit
             /\ \A i, j \in 1..Len(tool_out.combined) :
                   (i # j /\ tool_out.combined[i].id = tool_out.combined[j].id)
                   => tool_out.combined[i].id = ""
       /\ (tool_env.all.returned /\ tool_env.all.memories = <<>>)
          => /\ tool_pc = "returned"
             /\ tool_out.status = "no_memories"
             /\ tool_out.insights = <<>>
             /\ ~tool_out.stored

\* the searches returned more than the analysis had room for, among it a
\* memory that was already among the recent ones
C32_Witness ==
    /\ AgentDone
    /\ tool_name = "analyze_recent_conversations"
    /\ tool_out.status = "analyzed"
    /\ tool_env.limit = 3
    /\ tool_out.recent_count = 1
    /\ tool_out.relevant_count = 2
    /\ Len(ExtendAll(tool_env.searches)) > 2
    /\ Len(tool_out.combined) = 2


(***************************************************************************)
(* Range of the message counter                                            *)
(***************************************************************************)
\* C33: in every state between the steps of the hooks the counter is at
\* least 0 and below the threshold; and it is back at 0 after a turn was
\* persisted only because a reflection was dispatched.
C33_CounterRange ==
    /\ message_count \in 0..(REFLECTION_MESSAGE_THRESHOLD - 1)
    /\ (/\ last.hook = "add_return"
        /\ last.outcome = "stored"
        /\ message_count = 0)
       => reflections # <<>>

\* after a reset the counter has climbed to one below the threshold again
C33_Witness ==
    /\ Len(reflections) = 1
    /\ message_count = REFLECTION_MESSAGE_THRESHOLD - 1
    /\ last.hook = "add_return"
    /\ last.outcome = "stored"


(***************************************************************************)
(* One persistence attempt per flow and key                                *)
(***************************************************************************)
\* C34: on a flow with given payloads add_memory is invoked at most once,
\* however often the response hook runs, whether the call returned, raised
\* or is still suspended; the hook that invokes it has found the flow
\* without this key and has written the key before it suspends.
C34_OneAttemptPerFlowAndKey ==
    /\ [](add_calls <= 1)
    /\ [](\A k \in 1..Len(pending) :
             processed_conv_id[pending[k].flow] = pending[k].conv)
    /\ [][(last'.hook = "response" /\ last'.outcome = "add")
            => /\ add_calls = 0
               /\ processed_conv_id[last'.flow] = NoConv
               /\ processed_conv_id'[last'.flow] = pending'[Len(pending')].conv]_vars

\* the hook ran again on the flow while its first invocation was suspended
\* in add_memory, and made no second call
C34_Witness ==
    /\ last.hook = "response"
    /\ last.repeat
    /\ last.outcome = "already_processed"
    /\ Len(pending) = 1
    /\ pending[1].flow = last.flow
    /\ add_calls = 1


(***************************************************************************)
(* Dispatch accounting                                                     *)
(***************************************************************************)
\* the number of messages persisted after the turn with which the last
\* reflection was dispatched: turns n, n-1, ... back to that turn
RECURSIVE SinceLastDispatch(_, _)
SinceLastDispatch(turns, n) ==
    IF n = 0 THEN 0
    ELSE IF Replay(turns, n).dispatches > Replay(turns, n - 1).dispatches
    THEN 0
    ELSE SinceLastDispatch(turns, n - 1) + Len(turns[n].messages)

\* C35: the dispatches times the threshold never exceed the number of
\* messages persisted; the counter is the number of messages persisted since
\* the last dispatch; and the step that dispatches has brought the messages
\* accumulated since the previous dispatch to the threshold or more.
C35_DispatchAccounting ==
    /\ [](Len(reflections) * REFLECTION_MESSAGE_THRESHOLD
             <= MessageTotal(store, Len(store)))
    /\ [](message_count = SinceLastDispatch(store, Len(store)))
    /\ [][Len(reflections') > Len(reflections)
            => /\ Len(reflections') = Len(reflections) + 1
               /\ message_count + Len(store'[Len(store')].messages)
                     >= REFLECTION_MESSAGE_THRESHOLD
               /\ MessageTotal(store', Len(store'))
                     >= Len(reflections') * REFLECTION_MESSAGE_THRESHOLD]_vars

\* a reflection was dispatched on more messages than the threshold, and
\* three messages were persisted since
C35_Witness ==
    /\ Len(reflections) = 1
    /\ MessageTotal(store, Len(store)) = REFLECTION_MESSAGE_THRESHOLD + 4
    /\ message_count = 3

\* C36: the message list handed to a background reflection unit is a copy of
\* the window taken at dispatch time and has at most K entries; no later step,
\* in particular no turn captured while the unit is still running, changes
\* the messages of a unit that exists.
C36_SnapshotIndependence ==
    /\ [](\A i \in 1..Len(tasks) :
             Len(tasks[i].messages) <= RECENT_MESSAGES_LIMIT)
    /\ [][/\ Len(tasks') >= Len(tasks)
          /\ \A i \in 1..Len(tasks) : tasks'[i].messages = tasks[i].messages
          /\ Len(tasks') > Len(tasks)
                => /\ Len(tasks') = Len(tasks) + 1
                   /\ last'.hook = "add_return"
                   /\ tasks'[Len(tasks')].messages = recent_messages']_vars

\* C36 witness: a unit is still running on a full snapshot while a turn
\* captured after its dispatch has changed the window
C36_Witness ==
    \E i \in 1..Len(tasks) :
        /\ tasks[i].pc \in {"searching", "reflecting"}
        /\ Len(tasks[i].messages) = RECENT_MESSAGES_LIMIT
        /\ tasks[i].messages # recent_messages
        /\ message_count > 0

\* C37: when a captured turn brings the counter to the threshold, the counter
\* is reset to 0 whether create_task returned or raised; after a dispatch
\* that failed no unit exists for it, and the next captured turn counts from
\* 0 and does not dispatch again.
C37_ResetIsUnconditional ==
    [][store' # store =>
         LET n == Len(store'[Len(store')].messages)
         IN  /\ message_count + n >= REFLECTION_MESSAGE_THRESHOLD
                   => message_count' = 0
             /\ last'.outcome = "dispatch_failed"
                   => /\ message_count + n >= REFLECTION_MESSAGE_THRESHOLD
                      /\ message_count' = 0
                      /\ tasks' = tasks
             /\ last.outcome = "dispatch_failed"
                   => /\ message_count' = n
                      /\ tasks' = tasks]_vars

\* C37 witness: the threshold was reached, creating the task failed (no unit
\* exists), and a later turn was captured without a new dispatch
C37_Witness ==
    /\ tasks = <<>>
    /\ MessageTotal(store, Len(store)) > REFLECTION_MESSAGE_THRESHOLD
    /\ message_count \in 1..2
    /\ last.outcome = "stored"

\* C38: a request or response event on a flow whose host is not the Claude
\* API, or whose path is not under /v1/messages, stores no request on the
\* flow, makes no call to the memory store, and leaves the processed marker,
\* the window and the counter as they were.
C38_ScopeFilter ==
    [][(/\ last'.hook \in {"request", "response"}
        /\ flow_target[last'.flow] \in {"other_host", "other_path"})
          => /\ claude_request' = claude_request
             /\ ~claude_request[last'.flow].present
             /\ add_calls' = add_calls
             /\ pending' = pending
             /\ store' = store
             /\ processed_conv_id' = processed_conv_id
             /\ recent_messages' = recent_messages
             /\ message_count' = message_count
             /\ last'.outcome \in {"out_of_scope", "uncorrelated"}]_vars

\* C38 witness: the response hook ran on a flow to another host while the
\* other flow's turn had been captured and counted
C38_Witness ==
    /\ last.hook = "response"
    /\ flow_target[last.flow] = "other_host"
    /\ last.outcome = "out_of_scope"
    /\ store # <<>>
    /\ message_count > 0
    /\ \E f \in DOMAIN claude_request : claude_request[f].present

\* C39: every message list the response hook passes to add has one or two
\* entries, at most one user message and at most one assistant message, each
\* with non-empty content, and the user message comes first when both are
\* present.
C39_PersistedTurnShape ==
    \A call \in AddCallsMade :
        LET m == call.messages
        IN  /\ Len(m) \in {1, 2}
            /\ Cardinality({k \in 1..Len(m) : m[k].role = "user"}) <= 1
            /\ Cardinality({k \in 1..Len(m) : m[k].role = "assistant"}) <= 1
            /\ \A k \in 1..Len(m) :
                  /\ m[k].role \in {"user", "assistant"}
                  /\ m[k].content # EmptyText
            /\ Len(m) = 2 => m[1].role = "user" /\ m[2].role = "assistant"

\* C39 witness: a request carrying two user messages and an assistant message
\* was persisted as a turn of its last user message and the reply
C39_Witness ==
    \E f \in DOMAIN claude_request :
        /\ claude_request[f].present
        /\ claude_request[f].data.isDict
        /\ Len(claude_request[f].data.messages) = 3
        /\ store # <<>>
        /\ store[1].messages = <<Message("user", TextU), Message("assistant", TextA)>>

\* the trigger condition holds through the message, error or tool counter
CounterTrigger(stats) ==
    \/ stats.messages >= MESSAGE_TRIGGER
    \/ stats.errors >= ERROR_TRIGGER
    \/ stats.tools >= TOOL_TRIGGER

\* C40: the message, error, tool and complexity counters go back to 0 only
\* when a reflection was triggered and returned an analysis; when the
\* trigger condition held at an event whose analysis failed or that had no
\* messages, the counters keep their values and the trigger condition holds
\* again at the next event.
C40_HookSessionCounters ==
    [][LET s == session_data.stats
           t == session_data'.stats
       IN  /\ (\/ t.messages < s.messages
               \/ t.errors < s.errors
               \/ t.tools < s.tools
               \/ (t.complexity = 0 /\ s.complexity > 0))
                 => hook_event'.reset
           /\ (hook_event.triggered /\ ~hook_event.reset)
                 => hook_event'.triggered]_vars

\* C40 (amended): the message, error and tool counters never decrease except
\* by the reset to 0 that follows a triggered reflection which returned an
\* analysis, and that reset also sets the complexity score to 0; without a
\* reset the complexity score changes only at an event that carries
\* messages.  When the trigger condition held through the message, error or
\* tool counter at an event that ended without a reset, it holds again at
\* the next event.
C40_CountersResetOnlyAfterAnalysis ==
    [][LET s == session_data.stats
           t == session_data'.stats
       IN  /\ (t.messages < s.messages \/ t.errors < s.errors \/ t.tools < s.tools)
                 => hook_event'.reset
           /\ hook_event'.reset
                 => /\ hook_event'.triggered
                    /\ hook_event'.called
                    /\ t = FreshStats
           /\ (~hook_event'.reset /\ t.complexity # s.complexity)
                 => hook_event'.messages_key
           /\ (hook_event.triggered /\ ~hook_event.reset /\ CounterTrigger(s))
                 => /\ hook_event'.triggered
                    /\ ~hook_event'.reset => CounterTrigger(t)]_vars

\* C40 witness: the message count passed its threshold at an event whose
\* analysis did not lead to a reset, and the following event triggered the
\* analysis again, again without a reset
C40_Witness ==
    /\ session_data.stats.messages > MESSAGE_TRIGGER
    /\ session_data.stats.errors < ERROR_TRIGGER
    /\ session_data.stats.tools < TOOL_TRIGGER
    /\ hook_event.triggered
    /\ hook_event.called
    /\ ~hook_event.reset

====
